---- MODULE Spec2Model ----
(***************************************************************************)
(* A model of the img2gcode editor: the workspace configuration (mm <->    *)
(* pixel ratio and usable area with their caches), the grayscale filter,   *)
(* the canvas with its overlay and user objects, the zoom/pan viewport and *)
(* the project persistence layer over local storage.                       *)
(*                                                                         *)
(* Numbers that the program holds as JavaScript doubles are modelled as    *)
(* exact rationals <<n, d>> in lowest terms with d > 0.                    *)
(***************************************************************************)
EXTENDS Integers, Sequences, FiniteSets, TLC

(***************************************************************************)
(* Exact rational arithmetic                                               *)
(***************************************************************************)
Abs(n) == IF n < 0 THEN -n ELSE n

RECURSIVE GCD(_, _)
GCD(a, b) == IF b = 0 THEN a ELSE GCD(b, a % b)

\* the rational n/d in lowest terms, d # 0
Rat(n, d) ==
    LET g == GCD(Abs(n), Abs(d))
        s == IF d < 0 THEN -1 ELSE 1
    IN  <<(s * n) \div g, (s * d) \div g>>

RInt(n)    == <<n, 1>>

\* sums, products and comparisons cancel common factors first, which keeps
\* the intermediate integers small
RAdd(a, b) ==
    LET g == GCD(a[2], b[2])
    IN  Rat(a[1] * (b[2] \div g) + b[1] * (a[2] \div g), (a[2] \div g) * b[2])
RSub(a, b) == RAdd(a, <<-b[1], b[2]>>)
RMul(a, b) ==
    LET g1 == GCD(Abs(a[1]), b[2])
        g2 == GCD(Abs(b[1]), a[2])
    IN  IF a[1] = 0 \/ b[1] = 0 THEN <<0, 1>>
        ELSE <<(a[1] \div g1) * (b[1] \div g2), (a[2] \div g2) * (b[2] \div g1)>>
RDiv(a, b) == RMul(a, IF b[1] < 0 THEN <<-b[2], -b[1]>> ELSE <<b[2], b[1]>>)
RLe(a, b)  ==
    LET g == GCD(a[2], b[2])
    IN  a[1] * (b[2] \div g) <= b[1] * (a[2] \div g)
RLt(a, b)  ==
    LET g == GCD(a[2], b[2])
    IN  a[1] * (b[2] \div g) < b[1] * (a[2] \div g)
RMin(a, b) == IF RLe(a, b) THEN a ELSE b
RMax(a, b) == IF RLe(a, b) THEN b ELSE a

\* JavaScript null, for a slot that otherwise holds a rational
Null == <<0, 0>>

\* F(a) and F(a, b) with the arguments evaluated once
Let(F(_), a) == CHOOSE r \in {F(x) : x \in {a}} : TRUE
Let2(F(_, _), a, b) == CHOOSE r \in {F(x, y) : x \in {a}, y \in {b}} : TRUE

(***************************************************************************)
(* config.js: WORKSPACE_CONFIG                                             *)
(***************************************************************************)
DEFAULT_WIDTH  == 100
DEFAULT_HEIGHT == 100
MIN_WIDTH      == 10
MIN_HEIGHT     == 10
MAX_WIDTH      == 500
MAX_HEIGHT     == 500
CANVAS_WIDTH   == 800
CANVAS_HEIGHT  == 600
\* the margin of the usable area from the canvas edge, in pixels
AreaMargin     == 50

\* the legacy WORKSPACE_CONFIG of the same file
LegacyDefault  == 100
LegacyMin      == 10
LegacyMax      == 200

VARIABLES
    _width, _height,          \* WORKSPACE_CONFIG._width / _height (mm)
    _pixelsPerMm,             \* cached ratio, or Null
    _usableArea,              \* cached usable area record, or NullArea
    legacyWidth, legacyHeight,\* the legacy WORKSPACE_CONFIG.width / height
    lastOp,                   \* the operation that produced this state
    readPpm,                  \* what the read of pixelsPerMm just made returned
    readArea,                 \* what the read of usableArea just made returned
    data,                     \* imageData.data of the offscreen surface (RGBA bytes)
    original,                 \* the bytes the surface held when the image was drawn
    objects,                  \* canvas.getObjects(), back to front
    activeObject,             \* index in objects of canvas.getActiveObject(), 0 for none
    viewportTransform,        \* canvas.viewportTransform, six rationals
    _currentZoom,             \* AppGlobalState._currentZoom
    currentZoom,              \* the global variable currentZoom
    _currentProjectName,      \* AppGlobalState._currentProjectName
    currentProjectName,       \* the global variable currentProjectName
    localStorage,             \* the four storage items of the program
    nameInput,                \* value of the #currentProjectName input
    saveStatus,               \* type of the status last shown by updateSaveStatus
    pending,                  \* deferred callbacks not yet run, oldest first
    measureThrottle,          \* inThrottle of ZoomManager.updateMeasurementIndicators
    zoomUpdateThrottle,       \* inThrottle of the throttled handleZoomUpdate
    steps,                    \* how many incremental zoom and pan steps were taken
    copiedObject,             \* the global variable copiedObject
    exported,                 \* the objects the last export serialized
    gridSnappingEnabled,      \* the global variable gridSnappingEnabled
    clock,                    \* the wall clock, one tick per timestamp taken
    projectSteps,             \* how many project operations the user has started
    storageFault,             \* the setItem that threw in the save made last, "none" for none
    savedAt,                  \* per name, the canvas as it was at the last save
    activeProject,            \* the project saved or loaded last, NoName for none
    deleted,                  \* the project deleted last, and what it was then
    loaded,                   \* the load whose outcome is being observed
    caches,                   \* the CacheStorage of the origin: cache name -> URLs held
    fetchEvent,               \* the fetch event the service worker handled last
    workerSteps,              \* how many events the service worker has handled
    errorLog,                 \* ErrorHandler.errorLog
    arrivals,                 \* every entry ErrorHandler.log pushed, oldest first
    errorCount,               \* AppState.errorCount
    profiles,                 \* MachineProfileManager.profiles: key -> profile
    currentProfile,           \* MachineProfileManager.currentProfile
    profileStorage,           \* the storage items machineProfiles and currentMachineProfile
    confirmation,             \* how the overwrite question of the last dialog save went
    profileClock,             \* the wall clock of the profile timestamps
    listeners,                \* AppEvents.listeners.get(event): callbacks in insertion order
    registered,               \* every callback handed to on or once, by identity
    calls,                    \* how often each registered callback was invoked
    skipped,                  \* whether the last emit left out a listener of the event
    emits                     \* how many times client code has emitted the event

wsVars   == <<_width, _height, _pixelsPerMm, _usableArea, legacyWidth,
              legacyHeight, readPpm, readArea>>
grayVars == <<data, original>>
canvasVars  == <<objects, activeObject, copiedObject, exported, gridSnappingEnabled>>
zoomVars    == <<viewportTransform, _currentZoom, currentZoom, measureThrottle,
                 zoomUpdateThrottle, steps>>
projectVars == <<_currentProjectName, currentProjectName, localStorage,
                 nameInput, saveStatus, clock, storageFault, savedAt, activeProject, deleted,
                 projectSteps>>
appVars     == <<canvasVars, zoomVars, projectVars, pending, loaded>>
workerVars  == <<caches, fetchEvent, workerSteps>>
logVars     == <<errorLog, arrivals, errorCount>>
\* the service worker and the error log, which no canvas operation touches
profileVars == <<profiles, currentProfile, profileStorage, confirmation, profileClock>>
eventVars   == <<listeners, registered, calls, skipped, emits>>
moduleVars  == <<profileVars, eventVars>>
sideVars    == <<workerVars, logVars, moduleVars>>

NullArea == [width |-> Null, height |-> Null, offsetX |-> Null,
             offsetY |-> Null, centerX |-> Null, centerY |-> Null]

\* An input value handed to a setter: <<"num", n>> for a number (or a
\* numeric string), <<"nan">> for anything Number() turns into NaN.
Num(n)   == <<"num", n>>
NotANum  == <<"nan">>

\* Number(value) || dflt
NumberOr(value, dflt) ==
    IF value[1] = "nan" THEN dflt
    ELSE IF value[2] = 0 THEN dflt ELSE value[2]

Clamp(value, lo, hi) ==
    (IF lo > (IF hi < value THEN hi ELSE value)
       THEN lo ELSE (IF hi < value THEN hi ELSE value))

\* set width(value): Math.max(MIN, Math.min(MAX, Number(value) || DEFAULT))
ValidatedWidth(value)  == Clamp(NumberOr(value, DEFAULT_WIDTH), MIN_WIDTH, MAX_WIDTH)
ValidatedHeight(value) == Clamp(NumberOr(value, DEFAULT_HEIGHT), MIN_HEIGHT, MAX_HEIGHT)

\* the larger of the two ratios
ComputePixelsPerMm_Max(w, h) == RMax(Rat(CANVAS_WIDTH, w), Rat(CANVAS_HEIGHT, h))

\* the ratio as the getter computes it on a cache miss
ComputePixelsPerMm(w, h) ==
    LET ratioX == Rat(CANVAS_WIDTH, w)
        ratioY == Rat(CANVAS_HEIGHT, h)
    IN  RMin(ratioX, ratioY)

\* get pixelsPerMm(): the value returned, given the cache and the dimensions
PixelsPerMmOf(cache, w, h) ==
    IF cache = Null THEN ComputePixelsPerMm(w, h) ELSE cache

\* get usableArea() on a cache miss, ppm being what this.pixelsPerMm returns
ComputeUsableArea(w, h, ppm) ==
    LET usableWidth  == RMul(RInt(w), ppm)
        usableHeight == RMul(RInt(h), ppm)
        offsetX      == RInt(AreaMargin)
        offsetY      == RSub(RSub(RInt(CANVAS_HEIGHT), usableHeight), RInt(AreaMargin))
    IN  [width   |-> usableWidth,
         height  |-> usableHeight,
         offsetX |-> offsetX,
         offsetY |-> offsetY,
         centerX |-> RAdd(offsetX, RDiv(usableWidth, RInt(2))),
         centerY |-> RAdd(offsetY, RDiv(usableHeight, RInt(2)))]

UsableAreaOf(cacheArea, cachePpm, w, h) ==
    IF cacheArea = NullArea
      THEN ComputeUsableArea(w, h, PixelsPerMmOf(cachePpm, w, h))
      ELSE cacheArea

\* the legacy getter: no cache
LegacyPixelsPerMm(w, h) ==
    LET ratioX == Rat(CANVAS_WIDTH, w)
        ratioY == Rat(CANVAS_HEIGHT, h)
    IN  RMin(ratioX, ratioY)

(***************************************************************************)
(* Workspace operations                                                    *)
(***************************************************************************)
\* WORKSPACE_CONFIG.presets
Presets ==
    [small  |-> [width |-> 50,  height |-> 50],
     medium |-> [width |-> 100, height |-> 100],
     large  |-> [width |-> 200, height |-> 200],
     ender3 |-> [width |-> 220, height |-> 220],
     custom |-> [width |-> 100, height |-> 100]]

PresetNames == {"small", "medium", "large", "ender3", "custom"}

\* values a caller may assign to width / height: in range, out of range on
\* both sides, zero, negative and non-numeric
DimensionInputs ==
    {Num(0), Num(-20), Num(5), Num(10), Num(75), Num(100), Num(400),
     Num(500), Num(750), NotANum}

\* values the legacy size inputs may deliver (parseInt(...) || default)
LegacyInputs == {0, 5, 150, 300}

\* an operation that is not a read leaves no value read
NoRead ==
    /\ readPpm' = Null
    /\ readArea' = NullArea

\* set width(value) without the call of onDimensionChange()
SetWidth_KeepCache(value) ==
    /\ _width' = ValidatedWidth(value)
    /\ lastOp' = "setWidth"
    /\ NoRead
    /\ UNCHANGED <<_height, _pixelsPerMm, _usableArea, legacyWidth, legacyHeight>>
    /\ UNCHANGED <<grayVars, sideVars, appVars>>

\* set width(value), with onDimensionChange() invalidating both caches
SetWidth(value) ==
    /\ _width' = ValidatedWidth(value)
    /\ _pixelsPerMm' = Null
    /\ _usableArea' = NullArea
    /\ lastOp' = "setWidth"
    /\ NoRead
    /\ UNCHANGED <<_height, legacyWidth, legacyHeight>>
    /\ UNCHANGED <<grayVars, sideVars, appVars>>

\* set height(value)
SetHeight(value) ==
    /\ _height' = ValidatedHeight(value)
    /\ _pixelsPerMm' = Null
    /\ _usableArea' = NullArea
    /\ lastOp' = "setHeight"
    /\ NoRead
    /\ UNCHANGED <<_width, legacyWidth, legacyHeight>>
    /\ UNCHANGED <<grayVars, sideVars, appVars>>

\* applyPreset(presetName): both setters in turn; an unknown name changes nothing
ApplyPreset(presetName) ==
    /\ presetName \in PresetNames
    /\ _width' = ValidatedWidth(Num(Presets[presetName].width))
    /\ _height' = ValidatedHeight(Num(Presets[presetName].height))
    /\ _pixelsPerMm' = Null
    /\ _usableArea' = NullArea
    /\ lastOp' = "applyPreset"
    /\ NoRead
    /\ UNCHANGED <<legacyWidth, legacyHeight>>
    /\ UNCHANGED <<grayVars, sideVars, appVars>>

\* a read of WORKSPACE_CONFIG.pixelsPerMm: fills the cache on a miss
ReadPixelsPerMm ==
    /\ _pixelsPerMm' = PixelsPerMmOf(_pixelsPerMm, _width, _height)
    /\ readPpm' = _pixelsPerMm'
    /\ readArea' = NullArea
    /\ lastOp' = "readPixelsPerMm"
    /\ UNCHANGED <<_width, _height, _usableArea, legacyWidth, legacyHeight>>
    /\ UNCHANGED <<grayVars, sideVars, appVars>>

\* a read of WORKSPACE_CONFIG.usableArea: fills both caches on a miss
ReadUsableArea ==
    /\ _usableArea' = UsableAreaOf(_usableArea, _pixelsPerMm, _width, _height)
    /\ _pixelsPerMm' = IF _usableArea = NullArea
                         THEN PixelsPerMmOf(_pixelsPerMm, _width, _height)
                         ELSE _pixelsPerMm
    /\ readArea' = _usableArea'
    /\ readPpm' = Null
    /\ lastOp' = "readUsableArea"
    /\ UNCHANGED <<_width, _height, legacyWidth, legacyHeight>>
    /\ UNCHANGED <<grayVars, sideVars, appVars>>

\* legacy setWorkingArea(width, height)
SetWorkingArea(width, height) ==
    /\ legacyWidth' = Clamp(IF width = 0 THEN LegacyDefault ELSE width,
                            LegacyMin, LegacyMax)
    /\ legacyHeight' = Clamp(IF height = 0 THEN LegacyDefault ELSE height,
                             LegacyMin, LegacyMax)
    /\ lastOp' = "setWorkingArea"
    /\ NoRead
    /\ UNCHANGED <<_width, _height, _pixelsPerMm, _usableArea>>
    /\ UNCHANGED <<grayVars, sideVars, appVars>>

\* a read of the legacy WORKSPACE_CONFIG.pixelsPerMm
ReadLegacyPixelsPerMm ==
    /\ readPpm' = LegacyPixelsPerMm(legacyWidth, legacyHeight)
    /\ readArea' = NullArea
    /\ lastOp' = "readLegacyPixelsPerMm"
    /\ UNCHANGED <<_width, _height, _pixelsPerMm, _usableArea, legacyWidth,
                   legacyHeight>>
    /\ UNCHANGED <<grayVars, sideVars, appVars>>

(***************************************************************************)
(* image-processing.js: convertToGrayscale                                 *)
(***************************************************************************)
\* the largest image, in pixels, the grayscale specification draws
MaxPixels == 2

\* channel values the images are drawn from: both ends of the byte range,
\* and two values that put the weighted sum half-way between two integers:
\* 0.587 * 36 + 0.114 * 12 = 22.5
ChannelSamples == {0, 12, 36, 255}
AlphaSamples   == {255}

\* a Uint8ClampedArray slot keeps what it is given within 0..255
Uint8Clamp(v) == IF v < 0 THEN 0 ELSE IF v > 255 THEN 255 ELSE v

\* the weighted sum truncated instead of rounded
GrayscaleValue_Floor(r, g, b, tieUp) == (299 * r + 587 * g + 114 * b) \div 1000

\* Math.round(0.299 * r + 0.587 * g + 0.114 * b): the three weights are not
\* binary fractions, so where the exact sum is half-way between two integers
\* the double that is rounded lies at, just above or just below the half
\* (28.5 for 0, 0, 250 and 22.499999999999996 for 0, 36, 12); tieUp tells
\* which way such a sum goes
GrayscaleValue(r, g, b, tieUp) ==
    LET sum == 299 * r + 587 * g + 114 * b
    IN  IF sum % 1000 > 500 \/ (sum % 1000 = 500 /\ tieUp)
          THEN sum \div 1000 + 1
          ELSE sum \div 1000

\* for (var i = 0; i < data.length; i += 4) { ... }, i counted from 1 here
RECURSIVE GrayscaleLoop(_, _, _)
GrayscaleLoop(d, i, ties) ==
    IF i > Len(d) THEN d
    ELSE Let(LAMBDA grayscale :
                GrayscaleLoop([d EXCEPT ![i]     = Uint8Clamp(grayscale),
                                        ![i + 1] = Uint8Clamp(grayscale),
                                        ![i + 2] = Uint8Clamp(grayscale)],
                              i + 4, ties),
             GrayscaleValue(d[i], d[i + 1], d[i + 2], ties[(i + 3) \div 4]))

\* convertToGrayscale(imgElement), on the bytes drawn from the image
ConvertToGrayscale ==
    /\ Len(data) > 0
    /\ lastOp # "convertToGrayscale"
    /\ \E ties \in [1..(Len(data) \div 4) -> BOOLEAN] :
           data' = GrayscaleLoop(data, 1, ties)
    /\ lastOp' = "convertToGrayscale"
    /\ UNCHANGED <<original, wsVars, appVars, sideVars>>

\* every RGBA byte sequence of 1..MaxPixels pixels over the samples
Pixels == {<<r, g, b, a>> : r \in ChannelSamples, g \in ChannelSamples,
                            b \in ChannelSamples, a \in AlphaSamples}

RECURSIVE Images(_)
Images(n) ==
    IF n = 0 THEN {<<>>}
    ELSE {img \o px : img \in Images(n - 1), px \in Pixels}

(***************************************************************************)
(* Canvas objects (object-management.js, image-processing.js)              *)
(***************************************************************************)
\* the most user objects the canvas holds at once
MaxObjects == 1

\* what the getters return in the current state
CurPpm  == PixelsPerMmOf(_pixelsPerMm, _width, _height)
CurArea == UsableAreaOf(_usableArea, _pixelsPerMm, _width, _height)

\* the effect on the configuration of a handler that reads usableArea
\* (and, through mmToPixels, pixelsPerMm): both caches are filled
ReadsWorkspace ==
    /\ _usableArea' = CurArea
    /\ _pixelsPerMm' = CurPpm
    /\ UNCHANGED <<_width, _height, legacyWidth, legacyHeight, readPpm, readArea>>

\* WORKSPACE_CONFIG.mmToPixels / pixelsToMm
mmToPixels(mm)     == RMul(RInt(mm), CurPpm)
pixelsToMm(pixels) == RDiv(pixels, CurPpm)

RFloor(r) == r[1] \div r[2]

\* a fabric object: the properties the program sets or reads, and the
\* length in bytes of its serialized form
Obj(type, left, top, width, height, bytes) ==
    [type |-> type, left |-> left, top |-> top, width |-> width,
     height |-> height, scaleX |-> RInt(1), scaleY |-> RInt(1),
     strokeWidth |-> 0, excludeFromExport |-> FALSE, isIndicator |-> FALSE,
     isRuler |-> FALSE, bytes |-> bytes]

\* an object created with selectable: false, evented: false, excludeFromExport: true
Overlay(type, left, top, width, height, isIndicator, isRuler) ==
    [Obj(type, left, top, width, height, 0) EXCEPT
        !.excludeFromExport = TRUE, !.isIndicator = isIndicator, !.isRuler = isRuler]

\* new fabric.Line([x1, y1, x2, y2], ...) as an overlay
OverlayLine(x1, y1, x2, y2, isIndicator, isRuler) ==
    Overlay("line", RMin(x1, x2), RMin(y1, y2),
            RSub(RMax(x1, x2), RMin(x1, x2)), RSub(RMax(y1, y2), RMin(y1, y2)),
            isIndicator, isRuler)

IsOverlay(o) == o.excludeFromExport

\* the indices of objs whose object is an overlay, an indicator, a ruler
NonOverlayIdx(objs) == Let(LAMBDA o : {i \in 1..Len(o) : ~IsOverlay(o[i])}, objs)
OverlayIdx(objs)    == Let(LAMBDA o : {i \in 1..Len(o) : IsOverlay(o[i])}, objs)
IndicatorIdx(objs)  == Let(LAMBDA o : {i \in 1..Len(o) : o[i].isIndicator}, objs)
RulerIdx(objs)      == Let(LAMBDA o : {i \in 1..Len(o) : o[i].isRuler}, objs)

\* objs cut down to the indices in keep, in order
SelectObjs(objs, keep) ==
    Let2(LAMBDA o, k :
            Let(LAMBDA idx : [j \in 1..Len(idx) |-> o[idx[j]]],
                SelectSeq([i \in 1..Len(o) |-> i], LAMBDA i : i \in k)),
         objs, keep)

\* where the object at index i ends up once only the indices in keep remain
NewIndex(keep, i) ==
    Let(LAMBDA k : IF i \in k THEN Cardinality({j \in k : j <= i}) ELSE 0, keep)

UserObjects(objs) == Let(LAMBDA o : SelectObjs(o, NonOverlayIdx(o)), objs)

\* canvas.add(o); canvas.sendToBack(o) for each o of list in turn: the list
\* ends up reversed, below the objects that were there
SendAllToBack(objs, list) ==
    Let(LAMBDA l : [k \in 1..Len(l) |-> l[Len(l) + 1 - k]], list) \o objs

\* removeSizeIndicators(): the canvas without the objects flagged isIndicator
RemoveSizeIndicators(objs) ==
    Let(LAMBDA o : SelectObjs(o, (1..Len(o)) \ IndicatorIdx(o)), objs)

\* how many steps of the given size fit into the given length
StepsWithin(length, size) == (length[1] * size[2]) \div (length[2] * size[1])

\* the vertical, then the horizontal grid lines of addGridOverlay:
\* for (x = offsetX; x <= offsetX + width; x += gridSize)
VerticalLines(area, gridSize) ==
    [k \in 1..(StepsWithin(area.width, gridSize) + 1) |->
        Let(LAMBDA x : OverlayLine(x, area.offsetY, x,
                                   RAdd(area.offsetY, area.height), FALSE, FALSE),
            RAdd(area.offsetX, RMul(RInt(k - 1), gridSize)))]

HorizontalLines(area, gridSize) ==
    [k \in 1..(StepsWithin(area.height, gridSize) + 1) |->
        Let(LAMBDA y : OverlayLine(area.offsetX, y,
                                   RAdd(area.offsetX, area.width), y, FALSE, FALSE),
            RAdd(area.offsetY, RMul(RInt(k - 1), gridSize)))]

\* the border of the usable area and the origin marker
GridBorder(area) ==
    Overlay("rect", area.offsetX, area.offsetY, area.width, area.height, FALSE, FALSE)

GridOrigin(area) ==
    Overlay("group", RSub(area.offsetX, RInt(10)),
            RSub(RAdd(area.offsetY, area.height), RInt(10)),
            RInt(20), RInt(20), FALSE, FALSE)

\* addGridOverlay(): every object flagged excludeFromExport is removed, then
\* the grid lines, the border and the origin marker are added at the back
AddGridOverlay(objs, area, ppm) ==
    Let2(LAMBDA a, gridSize :
            SendAllToBack(
                UserObjects(objs),
                VerticalLines(a, gridSize) \o HorizontalLines(a, gridSize)
                \o <<GridBorder(a), GridOrigin(a)>>),
         area, RMul(RInt(5), ppm))

\* the eight indicators of addSizeIndicators(obj): two dimension lines, two
\* labels and four end markers
SizeIndicators(obj, zoom) ==
    LET objLeft   == obj.left
        objTop    == obj.top
        objWidth  == RMul(obj.width, obj.scaleX)
        objHeight == RMul(obj.height, obj.scaleY)
        offsetDistance == RDiv(RInt(15), zoom)
        offsetLabel    == RDiv(RInt(20), zoom)
        markerSize     == RDiv(RInt(10), zoom)
        right  == RAdd(objLeft, objWidth)
        bottom == RAdd(objTop, objHeight)
        widthLine  == OverlayLine(objLeft, RAdd(bottom, offsetDistance),
                                  right, RAdd(bottom, offsetDistance), TRUE, FALSE)
        widthLabel == Overlay("text", RAdd(objLeft, RDiv(objWidth, RInt(2))),
                              RAdd(bottom, offsetLabel), RInt(0), RInt(0), TRUE, FALSE)
        heightLine == OverlayLine(RAdd(right, offsetDistance), objTop,
                                  RAdd(right, offsetDistance), bottom, TRUE, FALSE)
        heightLabel == Overlay("text", RAdd(right, offsetLabel),
                               RAdd(objTop, RDiv(objHeight, RInt(2))),
                               RInt(0), RInt(0), TRUE, FALSE)
        endMarkers ==
            << OverlayLine(objLeft, RAdd(bottom, markerSize),
                           objLeft, RAdd(bottom, offsetLabel), TRUE, FALSE),
               OverlayLine(right, RAdd(bottom, markerSize),
                           right, RAdd(bottom, offsetLabel), TRUE, FALSE),
               OverlayLine(RAdd(right, markerSize), objTop,
                           RAdd(right, offsetLabel), objTop, TRUE, FALSE),
               OverlayLine(RAdd(right, markerSize), bottom,
                           RAdd(right, offsetLabel), bottom, TRUE, FALSE) >>
    IN  <<widthLine, widthLabel, heightLine, heightLabel>> \o endMarkers

\* addSizeIndicators(obj): the old indicators go, the new ones come to the front
AddSizeIndicators(objs, obj, zoom) ==
    RemoveSizeIndicators(objs)
    \o Let2(LAMBDA o, z : SizeIndicators(o, z), obj, zoom)

\* ObjectValidator.validate calls WORKSPACE_CONFIG.isWithinBounds, which no
\* file defines: the call throws inside displayObjectDimensions' try block
ValidateThrows == TRUE

\* the canvas as a pair: the object list and the index of the active object
Canvas(objs, active) == [objects |-> objs, active |-> active]

\* addSizeIndicators(canvas.getActiveObject()) on a canvas
WithSizeIndicators(cs, zoom) ==
    Let(LAMBDA c :
           IF c.active = 0 THEN c
           ELSE Canvas(AddSizeIndicators(c.objects, c.objects[c.active], zoom),
                       NewIndex((1..Len(c.objects)) \ IndicatorIdx(c.objects), c.active)),
        cs)

\* displayObjectDimensions(obj) for the active object: the catch block
\* swallows the error before addSizeIndicators is reached
DisplayObjectDimensions(cs, zoom) ==
    IF ValidateThrows THEN cs ELSE WithSizeIndicators(cs, zoom)

\* canvas.remove(o) for every o at an index in gone: removing the active
\* object fires selection:cleared, whose handler calls removeSizeIndicators
CanvasRemove(objs, active, gone) ==
    Let2(LAMBDA o, keep : [objects |-> SelectObjs(o, keep),
                           active |-> NewIndex(keep, active)],
         objs,
         IF active \in gone THEN ((1..Len(objs)) \ gone) \ IndicatorIdx(objs)
         ELSE (1..Len(objs)) \ gone)

\* the ticks and labels of addMeasurementRuler, top ruler then left ruler:
\* for (x = offsetX; x <= offsetX + width; x += step), a tick and a label each
TopRuler(area, step, zoom) ==
    [j \in 1..(2 * (StepsWithin(area.width, step) + 1)) |->
        Let(LAMBDA x :
               IF j % 2 = 1
                 THEN OverlayLine(x, RSub(RSub(area.offsetY, RDiv(RInt(10), zoom)), RInt(5)),
                                  x, RSub(area.offsetY, RInt(5)), FALSE, TRUE)
                 ELSE Overlay("text", x, RSub(area.offsetY, RDiv(RInt(25), zoom)),
                              RInt(0), RInt(0), FALSE, TRUE),
            RAdd(area.offsetX, RMul(RInt((j - 1) \div 2), step)))]

LeftRuler(area, step, zoom) ==
    [j \in 1..(2 * (StepsWithin(area.height, step) + 1)) |->
        Let(LAMBDA y :
               IF j % 2 = 1
                 THEN OverlayLine(RSub(RSub(area.offsetX, RDiv(RInt(10), zoom)), RInt(5)), y,
                                  RSub(area.offsetX, RInt(5)), y, FALSE, TRUE)
                 ELSE Overlay("text", RSub(area.offsetX, RDiv(RInt(25), zoom)), y,
                              RInt(0), RInt(0), FALSE, TRUE),
            RAdd(area.offsetY, RMul(RInt((j - 1) \div 2), step)))]

\* the objects of both rulers, in the order they are added
Rulers(area, ppm, zoom) ==
    Let2(LAMBDA a, z : Let(LAMBDA step : TopRuler(a, step, z) \o LeftRuler(a, step, z),
                           RMul(RInt(10), ppm)),
         area, zoom)

AddMeasurementRuler(objs, area, ppm, zoom) ==
    SendAllToBack(objs, Rulers(area, ppm, zoom))

RemoveMeasurementRulers(objs) ==
    Let(LAMBDA o : SelectObjs(o, (1..Len(o)) \ RulerIdx(o)), objs)

\* fabric's toFixed(value, NUM_FRACTION_DIGITS) with the library default of
\* two digits, applied by toObject to positions, sizes and scales
ToFixed2(r) ==
    LET a == Abs(r[1]) * 100
        q == (2 * a + r[2]) \div (2 * r[2])
    IN  IF r[1] < 0 THEN Rat(-q, 100) ELSE Rat(q, 100)

\* obj.toObject(): the serialized form of a canvas object
ToObject(o) ==
    [o EXCEPT !.left = ToFixed2(o.left), !.top = ToFixed2(o.top),
              !.width = ToFixed2(o.width), !.height = ToFixed2(o.height),
              !.scaleX = ToFixed2(o.scaleX), !.scaleY = ToFixed2(o.scaleY)]

\* an object's size on the canvas plane, stroke included (getBoundingRect
\* before the viewport transform is applied)
ScaledWidth(o)  == RMul(RAdd(o.width, RInt(o.strokeWidth)), o.scaleX)
ScaledHeight(o) == RMul(RAdd(o.height, RInt(o.strokeWidth)), o.scaleY)

\* DimensionCalculator.getObjectDimensionsInMm: width and height in mm
WidthInMm(o, ppm)  == RDiv(RMul(o.width, o.scaleX), ppm)
HeightInMm(o, ppm) == RDiv(RMul(o.height, o.scaleY), ppm)

(***************************************************************************)
(* Canvas operations                                                       *)
(***************************************************************************)
\* canvas.getZoom()
Zoom == viewportTransform[1]

UserCount(objs) == Cardinality(NonOverlayIdx(objs))

\* how many pending callbacks will add an object to the canvas
PendingAdds(q) == Len(SelectSeq(q, LAMBDA c : c.kind \in {"enliven", "paste"}))

\* room for one more user object
HasRoom == UserCount(objects) + PendingAdds(pending) < MaxObjects

\* how many callbacks of the given kinds are waiting
Running(kinds) == Len(SelectSeq(pending, LAMBDA c : c.kind \in kinds))

\* no animation is running
Idle == Running({"fitFrame", "zoomFrame"}) = 0

\* an operation the user starts, between two animations, ends the
\* observation of the last load
UserOp(name) ==
    /\ Idle
    /\ lastOp' = name
    /\ loaded' = [loaded EXCEPT !.clean = FALSE]

\* smoothZoom may be called again while its own animation runs
AnimationOp(name) ==
    /\ lastOp' = name
    /\ loaded' = [loaded EXCEPT !.clean = FALSE]

\* a deferred callback runs
CallbackOp(name) ==
    /\ lastOp' = name
    /\ UNCHANGED loaded

\* the serialized length of a shape, in bytes
ShapeBytes == 500

\* the image files offered to the file input: pixel size and serialized length
SmallImage == [width |-> 100, height |-> 80,  bytes |-> 20000]
LargeImage == [width |-> 700, height |-> 500, bytes |-> 400000]
ImageInputs == { SmallImage, LargeImage }
\* an image whose data URL alone exceeds ProjectManager.maxProjectSize
HugeImage == [width |-> 700, height |-> 500, bytes |-> 6000000]

\* canvas.add(obj); canvas.setActiveObject(obj); displayObjectDimensions(obj):
\* the selection event's handler displays the dimensions too
AddAndSelect(objs, obj, zoom) ==
    LET added == Canvas(Append(objs, obj), Len(objs) + 1)
    IN  DisplayObjectDimensions(DisplayObjectDimensions(added, zoom), zoom)

AddRectangle ==
    /\ HasRoom
    /\ LET area == CurArea
           rect == [Obj("rect", RAdd(area.offsetX, mmToPixels(20)),
                        RAdd(area.offsetY, mmToPixels(20)),
                        mmToPixels(30), mmToPixels(20), ShapeBytes)
                    EXCEPT !.strokeWidth = 2]
           cs   == AddAndSelect(objects, rect, Zoom)
       IN  /\ objects' = cs.objects
           /\ activeObject' = cs.active
    /\ ReadsWorkspace
    /\ UserOp("addRectangle")
    /\ UNCHANGED <<copiedObject, exported, gridSnappingEnabled, zoomVars, projectVars, pending, grayVars, sideVars>>

AddCircle ==
    /\ HasRoom
    /\ LET area   == CurArea
           circle == [Obj("circle", RAdd(area.offsetX, mmToPixels(20)),
                          RAdd(area.offsetY, mmToPixels(20)),
                          mmToPixels(30), mmToPixels(30), ShapeBytes)
                      EXCEPT !.strokeWidth = 2]
           cs     == AddAndSelect(objects, circle, Zoom)
       IN  /\ objects' = cs.objects
           /\ activeObject' = cs.active
    /\ ReadsWorkspace
    /\ UserOp("addCircle")
    /\ UNCHANGED <<copiedObject, exported, gridSnappingEnabled, zoomVars, projectVars, pending, grayVars, sideVars>>

\* createFabricImage(imgElement, isGrayscale), run when the chosen file has
\* been decoded
\* fabric stores a negative scale as its magnitude and flips the object
RAbs(r) == <<Abs(r[1]), r[2]>>

CreateFabricImage(img) ==
    /\ HasRoom
    /\ LET area      == CurArea
           maxWidth  == mmToPixels(_width - 20)
           maxHeight == mmToPixels(_height - 20)
           tooLarge  == \/ RLt(maxWidth, RInt(img.width))
                        \/ RLt(maxHeight, RInt(img.height))
           scale     == IF tooLarge
                          THEN RMin(RDiv(maxWidth, RInt(img.width)),
                                    RDiv(maxHeight, RInt(img.height)))
                          ELSE RInt(1)
           image     == [Obj("image", RAdd(area.offsetX, mmToPixels(10)),
                             RAdd(area.offsetY, mmToPixels(10)),
                             RInt(img.width), RInt(img.height), img.bytes)
                         EXCEPT !.scaleX = RAbs(scale), !.scaleY = RAbs(scale)]
           cs        == AddAndSelect(objects, image, Zoom)
       IN  /\ objects' = cs.objects
           /\ activeObject' = cs.active
    /\ ReadsWorkspace
    /\ UserOp("createFabricImage")
    /\ UNCHANGED <<copiedObject, exported, gridSnappingEnabled, zoomVars, projectVars, pending, grayVars, sideVars>>

\* a click on the user object at index i: overlays are neither selectable
\* nor evented
SelectObject(i) ==
    /\ i \in NonOverlayIdx(objects)
    /\ i # activeObject
    /\ LET cs == DisplayObjectDimensions(Canvas(objects, i), Zoom)
       IN  /\ objects' = cs.objects
           /\ activeObject' = cs.active
    /\ UserOp("selectObject")
    /\ UNCHANGED <<copiedObject, exported, gridSnappingEnabled, zoomVars, projectVars, pending,
                   grayVars, sideVars, wsVars>>

\* a click on the empty canvas: selection:cleared removes the indicators
ClearSelection ==
    /\ activeObject # 0
    /\ objects' = RemoveSizeIndicators(objects)
    /\ activeObject' = 0
    /\ UserOp("clearSelection")
    /\ UNCHANGED <<copiedObject, exported, gridSnappingEnabled, zoomVars, projectVars, pending,
                   grayVars, sideVars, wsVars>>

\* where a drag may drop the active object, in canvas pixels
DragTargets == { <<110, 130>> }

\* Math.round(x): the integer nearest to x, a tie going up
MathRound(r) == (2 * r[1] + r[2]) \div (2 * r[2])

\* the grid step of snapToGrid, in mm
GridStepMm == 5

\* the variant that snaps to the grid line below
SnapToGrid_Floor(left, top) ==
    IF ~gridSnappingEnabled THEN <<left, top>>
    ELSE LET area == CurArea
             gridSize == mmToPixels(GridStepMm)
             Snap(x, offset) ==
                 RAdd(RMul(RInt(RDiv(RSub(x, offset), gridSize)[1]
                                \div RDiv(RSub(x, offset), gridSize)[2]), gridSize),
                      offset)
         IN  <<Snap(left, area.offsetX), Snap(top, area.offsetY)>>

\* snapToGrid(e), the object:moving handler toggleGridSnapping() registers:
\* where an object dragged to (left, top) is put
SnapToGrid(left, top) ==
    IF ~gridSnappingEnabled THEN <<left, top>>
    ELSE LET area == CurArea
             gridSize == mmToPixels(GridStepMm)
             Snap(x, offset) ==
                 RAdd(RMul(RInt(MathRound(RDiv(RSub(x, offset), gridSize))), gridSize),
                      offset)
         IN  <<Snap(left, area.offsetX), Snap(top, area.offsetY)>>

\* toggleGridSnapping()
ToggleGridSnapping ==
    /\ gridSnappingEnabled' = ~gridSnappingEnabled
    /\ UserOp("toggleGridSnapping")
    /\ UNCHANGED <<objects, activeObject, copiedObject, exported, zoomVars,
                   projectVars, pending, grayVars, sideVars, wsVars>>

\* where the pointer drags the object to, in canvas pixels
SnapTargets == { <<110, 130>>, <<123, 77>>, <<65, 215>>, <<-8, 52>> }

\* the active object is dragged to (left, top): object:moving and
\* object:modified display its dimensions
MoveSelected(left, top) ==
    /\ activeObject # 0
    /\ objects[activeObject].left # RInt(left) \/ objects[activeObject].top # RInt(top)
    /\ LET at    == SnapToGrid(RInt(left), RInt(top))
           moved == [objects EXCEPT ![activeObject].left = at[1],
                                    ![activeObject].top = at[2]]
           cs    == DisplayObjectDimensions(Canvas(moved, activeObject), Zoom)
       IN  /\ objects' = cs.objects
           /\ activeObject' = cs.active
    /\ UserOp("moveSelected")
    /\ UNCHANGED <<copiedObject, exported, gridSnappingEnabled, zoomVars, projectVars, pending,
                   grayVars, sideVars, wsVars>>

\* the values typed into the precision dialog, in mm: x, y, width, height
PrecisionInputs == { <<0, 0, 300, 200>> }

\* applyPrecisionChanges(): position and scale of the active object from mm
ApplyPrecisionChanges(in) ==
    /\ activeObject # 0
    /\ LET area == CurArea
           o    == objects[activeObject]
           parsed(v, dflt) == IF v = 0 THEN dflt ELSE v
           pixelX == RAdd(area.offsetX, mmToPixels(parsed(in[1], 0)))
           pixelY == RAdd(area.offsetY, mmToPixels(parsed(in[2], 0)))
           pixelWidth  == mmToPixels(parsed(in[3], 1))
           pixelHeight == mmToPixels(parsed(in[4], 1))
           placed == [o EXCEPT !.left = pixelX, !.top = pixelY]
           scaled == IF o.type # "line"
                       THEN [placed EXCEPT !.scaleX = RDiv(pixelWidth, o.width),
                                           !.scaleY = RDiv(pixelHeight, o.height)]
                       ELSE placed
           cs == DisplayObjectDimensions(
                     Canvas([objects EXCEPT ![activeObject] = scaled], activeObject), Zoom)
       IN  /\ scaled # o
           /\ objects' = cs.objects
           /\ activeObject' = cs.active
    /\ ReadsWorkspace
    /\ UserOp("applyPrecisionChanges")
    /\ UNCHANGED <<copiedObject, exported, gridSnappingEnabled, zoomVars, projectVars, pending, grayVars, sideVars>>

\* the variant that asks nothing before clearing
ClearCanvas_NoConfirm(confirmed) ==
    /\ UserCount(objects) > 0
    /\ LET cs == CanvasRemove(objects, activeObject, NonOverlayIdx(objects))
       IN  /\ objects' = cs.objects
           /\ activeObject' = cs.active
    /\ UserOp(IF confirmed THEN "clearCanvas" ELSE "clearCanvasDeclined")
    /\ UNCHANGED <<copiedObject, exported, gridSnappingEnabled, zoomVars, projectVars, pending,
                   grayVars, sideVars, wsVars>>

\* removeSelected(): the selection is discarded, then removed; without a
\* selection an alert is shown
RemoveSelected ==
    /\ IF activeObject = 0
         THEN /\ UserOp("removeNothing")
              /\ lastOp # "removeNothing"
              /\ UNCHANGED <<objects, activeObject>>
         ELSE /\ LET cs == CanvasRemove(objects, activeObject, {activeObject})
                 IN  /\ objects' = cs.objects
                     /\ activeObject' = cs.active
              /\ UserOp("removeSelected")
    /\ UNCHANGED <<copiedObject, exported, gridSnappingEnabled, zoomVars, projectVars, pending,
                   grayVars, sideVars, wsVars>>

\* clearCanvas(): once confirmed, every object not flagged excludeFromExport
\* goes
ClearCanvas(confirmed) ==
    /\ UserCount(objects) > 0
    /\ IF confirmed
         THEN /\ LET cs == CanvasRemove(objects, activeObject, NonOverlayIdx(objects))
                 IN  /\ objects' = cs.objects
                     /\ activeObject' = cs.active
              /\ UserOp("clearCanvas")
         ELSE /\ UserOp("clearCanvasDeclined")
              /\ UNCHANGED <<objects, activeObject>>
    /\ UNCHANGED <<copiedObject, exported, gridSnappingEnabled, zoomVars, projectVars, pending,
                   grayVars, sideVars, wsVars>>

\* updateMeasurementIndicators(): new indicators for the active object, and
\* the rulers, when shown, redrawn for the current zoom
UpdateMeasurementIndicators(cs, area, ppm, zoom) ==
    Let(LAMBDA cs1 :
           IF RulerIdx(cs1.objects) = {} THEN cs1
           ELSE Let2(LAMBDA gone, rulers :
                        Canvas(SendAllToBack(gone.objects, rulers),
                               IF gone.active = 0 THEN 0 ELSE gone.active + Len(rulers)),
                     CanvasRemove(cs1.objects, cs1.active, RulerIdx(cs1.objects)),
                     Rulers(area, ppm, zoom)),
        WithSizeIndicators(cs, zoom))

\* toggleMeasurementRulers()
ToggleMeasurementRulers ==
    /\ IF RulerIdx(objects) # {}
         THEN /\ LET cs == CanvasRemove(objects, activeObject, RulerIdx(objects))
                 IN  /\ objects' = cs.objects
                     /\ activeObject' = cs.active
              /\ UNCHANGED wsVars
         ELSE /\ LET added == AddMeasurementRuler(objects, CurArea, CurPpm, Zoom)
                 IN  /\ objects' = added
                     /\ activeObject' = IF activeObject = 0 THEN 0
                                        ELSE activeObject + Len(added) - Len(objects)
              /\ ReadsWorkspace
    /\ UserOp("toggleMeasurementRulers")
    /\ UNCHANGED <<copiedObject, exported, gridSnappingEnabled, zoomVars, projectVars, pending, grayVars, sideVars>>

\* copyObject(): toObject() without extra properties drops the custom flags
CopyObject ==
    /\ activeObject # 0
    /\ copiedObject' = << [ToObject(objects[activeObject]) EXCEPT
                              !.excludeFromExport = FALSE, !.isIndicator = FALSE,
                              !.isRuler = FALSE] >>
    /\ copiedObject' # copiedObject
    /\ UserOp("copyObject")
    /\ UNCHANGED <<objects, activeObject, exported, gridSnappingEnabled, zoomVars, projectVars,
                   pending, grayVars, sideVars, wsVars>>

\* a callback waiting to run; the fields a kind does not use stay empty
Callback(kind) ==
    [kind |-> kind, obj |-> <<>>, from |-> <<>>, target |-> <<>>,
     zoom |-> Null, step |-> 0, stale |-> FALSE]

RemoveAt(q, i) == SubSeq(q, 1, i - 1) \o SubSeq(q, i + 1, Len(q))

\* the most copies pasted next to the objects the user created
MaxCopies == 1

\* room for one more pasted copy
HasRoomForCopy == UserCount(objects) + PendingAdds(pending) < MaxObjects + MaxCopies

\* the body of pasteObject's enlivenObjects callback
PasteInto(objs, obj, zoom) ==
    AddAndSelect(objs, [obj EXCEPT !.left = RAdd(obj.left, RInt(20)),
                                   !.top = RAdd(obj.top, RInt(20))], zoom)

\* pasteObject(): a shape is revived at once, an image once it is decoded
PasteObject ==
    /\ copiedObject # <<>>
    /\ HasRoomForCopy
    /\ IF copiedObject[1].type = "image"
         THEN /\ pending' = Append(pending, [Callback("paste") EXCEPT !.obj = copiedObject])
              /\ UNCHANGED <<objects, activeObject>>
         ELSE /\ LET cs == PasteInto(objects, copiedObject[1], Zoom)
                 IN  /\ objects' = cs.objects
                     /\ activeObject' = cs.active
              /\ UNCHANGED pending
    /\ UserOp("pasteObject")
    /\ UNCHANGED <<copiedObject, exported, gridSnappingEnabled, zoomVars, projectVars, grayVars, sideVars, wsVars>>

PasteCallback(i) ==
    /\ i \in 1..Len(pending)
    /\ pending[i].kind = "paste"
    /\ LET cs == PasteInto(objects, pending[i].obj[1], Zoom)
       IN  /\ objects' = cs.objects
           /\ activeObject' = cs.active
    /\ pending' = RemoveAt(pending, i)
    /\ CallbackOp("pasteCallback")
    /\ UNCHANGED <<copiedObject, exported, gridSnappingEnabled, zoomVars, projectVars, grayVars, sideVars, wsVars>>

\* the most project operations (a name typed, a save, a load, a deletion,
\* a page load, an export) the user starts in one behaviour
MaxProjectSteps == 3

ProjectStep == projectSteps < MaxProjectSteps /\ projectSteps' = projectSteps + 1

\* downloadGcode(): canvas.toSVG() leaves out the objects flagged
\* excludeFromExport
DownloadGcode ==
    /\ ProjectStep
    /\ exported' = UserObjects(objects)
    /\ exported' # exported
    /\ UserOp("downloadGcode")
    /\ UNCHANGED <<objects, activeObject, copiedObject, gridSnappingEnabled, zoomVars,
                   _currentProjectName, currentProjectName, localStorage, nameInput,
                   saveStatus, clock, storageFault, savedAt, activeProject, deleted,
                   pending, grayVars, sideVars, wsVars>>

(***************************************************************************)
(* Zoom and pan (main.js, event-handlers.js)                               *)
(***************************************************************************)
\* APP_CONFIG
MIN_ZOOM  == Rat(1, 20)
MAX_ZOOM  == RInt(10)
ZOOM_STEP == Rat(1, 10)

\* the most zoom and pan operations the user starts in one behaviour
MaxSteps == 2

\* an operation that computes the new viewport from the current one is
\* explored from viewports whose six entries are fractions n/d with
\* d <= MaxDenominator and |n| <= MaxNumerator
MaxDenominator == 20
MaxNumerator   == 20000

Manageable ==
    \A k \in 1..6 : /\ viewportTransform[k][2] <= MaxDenominator
                     /\ Abs(viewportTransform[k][1]) <= MaxNumerator

\* one more of the zoom and pan operations the user may start
ViewStep ==
    /\ steps < MaxSteps
    /\ steps' = steps + 1

\* AppUtils.clamp on rationals: Math.max(min, Math.min(max, value))
ClampR(value, min, max) == RMax(min, RMin(max, value))

Identity == <<RInt(1), RInt(0), RInt(0), RInt(1), RInt(0), RInt(0)>>

\* canvas.getCenter()
CanvasCenter == <<RInt(CANVAS_WIDTH \div 2), RInt(CANVAS_HEIGHT \div 2)>>

\* fabric's canvas.zoomToPoint(point, value): the canvas point under the
\* given viewport point stays where it is
ZoomToPoint(vt, point, value) ==
    Let(LAMBDA v :
           <<v, vt[2], vt[3], v,
             RSub(point[1], RMul(RDiv(RSub(point[1], vt[5]), vt[1]), v)),
             RSub(point[2], RMul(RDiv(RSub(point[2], vt[6]), vt[4]), v))>>,
        value)

\* the setter of AppGlobalState.currentZoom
TrackedZoom(value) == RMax(MIN_ZOOM, RMin(MAX_ZOOM, value))

\* the workspace caches after a handler that may have redrawn the rulers
MeasureReads(ran) ==
    IF ran /\ RulerIdx(objects) # {} THEN ReadsWorkspace ELSE UNCHANGED wsVars

\* ZoomManager.updateMeasurementIndicators(), throttled to one run per 100 ms
ThrottledMeasure(zoom) ==
    /\ \E cs \in { IF measureThrottle THEN Canvas(objects, activeObject)
                    ELSE UpdateMeasurementIndicators(Canvas(objects, activeObject),
                                                     CurArea, CurPpm, zoom) } :
           /\ objects' = cs.objects
           /\ activeObject' = cs.active
    /\ measureThrottle' = TRUE
    /\ MeasureReads(~measureThrottle)

\* ZoomManager.setZoom(zoom, centerPoint)
SetZoomEffect(zoom, point) ==
    \E vt \in { ZoomToPoint(viewportTransform, point, ClampR(zoom, MIN_ZOOM, MAX_ZOOM)) } :
        /\ viewportTransform' = vt
        /\ _currentZoom' = TrackedZoom(vt[1])
        /\ ThrottledMeasure(vt[1])
        /\ UNCHANGED <<currentZoom, zoomUpdateThrottle>>

\* targets handed to ZoomManager.setZoom and smoothZoom
ZoomTargets == { Rat(1, 100), RInt(50) }

SetZoom(zoom) ==
    /\ ViewStep
    /\ Manageable
    /\ SetZoomEffect(zoom, CanvasCenter)
    /\ UserOp("setZoom")
    /\ UNCHANGED <<copiedObject, exported, gridSnappingEnabled, projectVars, pending, grayVars, sideVars>>

zoomIn ==
    /\ ViewStep
    /\ Manageable
    /\ SetZoomEffect(RMin(RAdd(Zoom, ZOOM_STEP), MAX_ZOOM), CanvasCenter)
    /\ UserOp("zoomIn")
    /\ UNCHANGED <<copiedObject, exported, gridSnappingEnabled, projectVars, pending, grayVars, sideVars>>

zoomOut ==
    /\ ViewStep
    /\ Manageable
    /\ SetZoomEffect(RMax(RSub(Zoom, ZOOM_STEP), MIN_ZOOM), CanvasCenter)
    /\ UserOp("zoomOut")
    /\ UNCHANGED <<copiedObject, exported, gridSnappingEnabled, projectVars, pending, grayVars, sideVars>>

resetZoom ==
    /\ ViewStep
    /\ viewportTransform' = Identity
    /\ _currentZoom' = TrackedZoom(Identity[1])
    /\ ThrottledMeasure(Identity[1])
    /\ UserOp("resetZoom")
    /\ UNCHANGED <<currentZoom, zoomUpdateThrottle, copiedObject, exported, gridSnappingEnabled,
                   projectVars, pending, grayVars, sideVars>>

\* where the pointer is when the wheel turns, in viewport pixels
WheelPoints == { <<100, 50>> }

\* the canvas mouse:wheel handler: deltaY > 0 zooms out by 0.9, else in by
\* 1.1; handleZoomUpdate runs at most once per 50 ms
MouseWheel(deltaY, point) ==
    /\ ViewStep
    /\ Manageable
    /\ LET zoomFactor == IF deltaY > 0 THEN Rat(9, 10) ELSE Rat(11, 10)
           zoom == ClampR(RMul(Zoom, zoomFactor), MIN_ZOOM, MAX_ZOOM)
       IN  \E vt \in { ZoomToPoint(viewportTransform,
                                   <<RInt(point[1]), RInt(point[2])>>, zoom) } :
           \E cs \in { IF zoomUpdateThrottle THEN Canvas(objects, activeObject)
                       ELSE UpdateMeasurementIndicators(Canvas(objects, activeObject),
                                                        CurArea, CurPpm, vt[1]) } :
              /\ viewportTransform' = vt
              /\ _currentZoom' = IF zoomUpdateThrottle THEN _currentZoom
                                 ELSE TrackedZoom(vt[1])
              /\ objects' = cs.objects
              /\ activeObject' = cs.active
    /\ zoomUpdateThrottle' = TRUE
    /\ MeasureReads(~zoomUpdateThrottle)
    /\ UserOp("mouseWheel")
    /\ UNCHANGED <<currentZoom, measureThrottle, copiedObject, exported, gridSnappingEnabled,
                   projectVars, pending, grayVars, sideVars>>

\* the timers that end the two throttle windows
ReleaseMeasureThrottle ==
    /\ measureThrottle
    /\ measureThrottle' = FALSE
    /\ CallbackOp("releaseMeasureThrottle")
    /\ UNCHANGED <<viewportTransform, _currentZoom, currentZoom, zoomUpdateThrottle,
                   steps, canvasVars, projectVars, pending, grayVars, sideVars, wsVars>>

ReleaseZoomUpdateThrottle ==
    /\ zoomUpdateThrottle
    /\ zoomUpdateThrottle' = FALSE
    /\ CallbackOp("releaseZoomUpdateThrottle")
    /\ UNCHANGED <<viewportTransform, _currentZoom, currentZoom, measureThrottle,
                   steps, canvasVars, projectVars, pending, grayVars, sideVars, wsVars>>

\* PanManager.panStep
PanStep == 50
PanDirections == { <<-1, 0>>, <<0, 1>> }

\* PanManager.panBy(deltaX, deltaY) through panLeft/Right/Up/Down
PanBy(dir) ==
    /\ ViewStep
    /\ viewportTransform' =
          [viewportTransform EXCEPT
              ![5] = RAdd(@, RInt(dir[1] * PanStep)),
              ![6] = RAdd(@, RInt(dir[2] * PanStep))]
    /\ UserOp("panBy")
    /\ UNCHANGED <<_currentZoom, currentZoom, measureThrottle, zoomUpdateThrottle,
                   canvasVars, projectVars, pending, grayVars, sideVars, wsVars>>

\* the frames of one animation
SmoothSteps == 10
FitSteps    == 20

\* the frames of the animations started earlier are no longer those of the
\* animation started last
Superseded(q) ==
    [k \in 1..Len(q) |-> IF q[k].kind \in {"fitFrame", "zoomFrame"}
                          THEN [q[k] EXCEPT !.stale = TRUE] ELSE q[k]]

\* ZoomManager.smoothZoom(targetZoom): the frame requested last by
\* smoothZoom is cancelled, the first animate() call runs at once
SmoothStart(targetZoom) ==
    /\ ViewStep
    /\ SetZoomEffect(Zoom, CanvasCenter)
    /\ pending' = Append(Superseded(SelectSeq(pending,
                                              LAMBDA c : c.kind # "zoomFrame")),
                         [Callback("zoomFrame") EXCEPT
                             !.zoom = Zoom, !.target = <<targetZoom>>, !.step = 1])
    /\ UNCHANGED <<copiedObject, exported, gridSnappingEnabled, projectVars, grayVars, sideVars>>

\* smoothZoom called while no fitToWindow animation runs
SmoothZoom(targetZoom) ==
    /\ Running({"fitFrame"}) = 0
    /\ SmoothStart(targetZoom)
    /\ AnimationOp("smoothZoom")

\* smoothZoom called while frames of fitToWindow are pending
SmoothZoomDuringFit(targetZoom) ==
    /\ Running({"fitFrame"}) > 0
    /\ Manageable
    /\ SmoothStart(targetZoom)
    /\ AnimationOp("smoothZoom")

\* one animation frame of smoothZoom
ZoomFrame(i) ==
    /\ i \in 1..Len(pending)
    /\ pending[i].kind = "zoomFrame"
    /\ LET c == pending[i]
           zoomStep == RDiv(RSub(c.target[1], c.zoom), RInt(SmoothSteps))
       IN  IF c.step < SmoothSteps
             THEN /\ SetZoomEffect(RAdd(c.zoom, RMul(zoomStep, RInt(c.step))), CanvasCenter)
                  /\ pending' = Append(RemoveAt(pending, i), [c EXCEPT !.step = c.step + 1])
             ELSE /\ SetZoomEffect(c.target[1], CanvasCenter)
                  /\ pending' = RemoveAt(pending, i)
    /\ CallbackOp("zoomFrame")
    /\ UNCHANGED <<copiedObject, exported, gridSnappingEnabled, steps, projectVars, grayVars, sideVars>>

\* clientWidth and clientHeight of the canvas container
ContainerSizes == { <<400, 300>> }

\* the padding fitToWindow subtracts from the container
ContainerPadding == 60

\* fitToWindow(): the target transform is computed, the first animate() call
\* re-applies the current transform, the frames that follow are never cancelled
FitStart(container) ==
    /\ ViewStep
    /\ Manageable
    /\ LET area == CurArea
           availableWidth  == RInt(container[1] - ContainerPadding)
           availableHeight == RInt(container[2] - ContainerPadding)
           scaleX == RDiv(availableWidth, area.width)
           scaleY == RDiv(availableHeight, area.height)
           optimalZoom == RMin(RMin(scaleX, scaleY), Rat(3, 2))
           centerX == RDiv(availableWidth, RInt(2))
           centerY == RDiv(availableHeight, RInt(2))
           targetTransform ==
               <<optimalZoom, RInt(0), RInt(0), optimalZoom,
                 RSub(centerX, RMul(RAdd(area.offsetX, RDiv(area.width, RInt(2))),
                                    optimalZoom)),
                 RSub(centerY, RMul(RAdd(area.offsetY, RDiv(area.height, RInt(2))),
                                    optimalZoom))>>
       IN  pending' = Append(Superseded(pending),
                             [Callback("fitFrame") EXCEPT
                                 !.from = viewportTransform,
                                 !.target = targetTransform, !.step = 1])
    /\ _currentZoom' = TrackedZoom(Zoom)
    /\ ReadsWorkspace
    /\ UNCHANGED <<viewportTransform, currentZoom, measureThrottle, zoomUpdateThrottle,
                   canvasVars, projectVars, grayVars, sideVars>>

\* fitToWindow called while no animation runs
FitToWindow(container) ==
    /\ FitStart(container)
    /\ UserOp("fitToWindow")

\* fitToWindow called while frames of an animation are pending
FitToWindowDuring(container) ==
    /\ ~Idle
    /\ FitStart(container)
    /\ AnimationOp("fitToWindow")

\* 1 - (1 - step / FitSteps)^3
EasedProgress(step) ==
    LET rest == RSub(RInt(1), Rat(step, FitSteps))
    IN  RSub(RInt(1), RMul(rest, RMul(rest, rest)))

\* one animation frame of fitToWindow
FitFrame(i) ==
    /\ i \in 1..Len(pending)
    /\ pending[i].kind = "fitFrame"
    /\ \E c \in { pending[i] } :
       \E interpolated \in { [k \in 1..6 |->
               RAdd(c.from[k], RMul(RSub(c.target[k], c.from[k]), EasedProgress(c.step)))] } :
           IF c.step < FitSteps
             THEN /\ viewportTransform' = interpolated
                  /\ _currentZoom' = TrackedZoom(interpolated[1])
                  /\ pending' = Append(RemoveAt(pending, i), [c EXCEPT !.step = c.step + 1])
                  /\ UNCHANGED <<objects, activeObject, measureThrottle, wsVars>>
             ELSE /\ viewportTransform' = c.target
                  /\ _currentZoom' = TrackedZoom(c.target[1])
                  /\ pending' = RemoveAt(pending, i)
                  /\ ThrottledMeasure(c.target[1])
    /\ CallbackOp("fitFrame")
    /\ UNCHANGED <<currentZoom, zoomUpdateThrottle, steps, copiedObject, exported, gridSnappingEnabled,
                   projectVars, grayVars, sideVars>>

\* the viewport zoomToArea(left, top, width, height, padding) sets
AreaTransform(left, top, width, height, padding) ==
    LET availableWidth  == RInt(CANVAS_WIDTH - padding * 2)
        availableHeight == RInt(CANVAS_HEIGHT - padding * 2)
        scaleX == RDiv(availableWidth, width)
        scaleY == RDiv(availableHeight, height)
        optimalZoom == RMin(RMin(scaleX, scaleY), MAX_ZOOM)
        centerX == RAdd(left, RDiv(width, RInt(2)))
        centerY == RAdd(top, RDiv(height, RInt(2)))
    IN  <<optimalZoom, RInt(0), RInt(0), optimalZoom,
          RSub(CanvasCenter[1], RMul(centerX, optimalZoom)),
          RSub(CanvasCenter[2], RMul(centerY, optimalZoom))>>

\* the rectangles handed to zoomToArea: left, top, width, height
AreaInputs == { <<0, 0, 400, 300>>, <<0, 0, 20000, 15000>> }

\* the default of zoomToArea's padding parameter, and zoomToSelection's
DefaultPadding   == 50
SelectionPadding == 100

zoomToArea(left, top, width, height, padding) ==
    /\ ViewStep
    /\ viewportTransform' = AreaTransform(left, top, width, height, padding)
    /\ _currentZoom' = TrackedZoom(viewportTransform'[1])
    /\ UNCHANGED <<currentZoom, measureThrottle, zoomUpdateThrottle,
                   canvasVars, projectVars, pending, grayVars, sideVars, wsVars>>

ZoomToArea(in) ==
    /\ zoomToArea(RInt(in[1]), RInt(in[2]), RInt(in[3]), RInt(in[4]), DefaultPadding)
    /\ UserOp("zoomToArea")

\* zoomToSelection(): the bounding rectangle, in viewport coordinates, of the
\* active object is handed to zoomToArea
zoomToSelection ==
    /\ activeObject # 0
    /\ Manageable
    /\ LET o == objects[activeObject]
           minX == RAdd(RMul(o.left, viewportTransform[1]), viewportTransform[5])
           minY == RAdd(RMul(o.top, viewportTransform[4]), viewportTransform[6])
           width  == RMul(ScaledWidth(o), viewportTransform[1])
           height == RMul(ScaledHeight(o), viewportTransform[4])
       IN  zoomToArea(minX, minY, width, height, SelectionPadding)
    /\ UserOp("zoomToSelection")

(***************************************************************************)
(* Project persistence (project-management.js, config.js)                  *)
(***************************************************************************)
\* getItem's null, for a storage item that holds a name
NoName == "<null>"

\* the names of AppGlobalState, of the legacy global and of the HTML input
DefaultProjectName == "Nouveau Projet"
LegacyProjectName  == "Projet par défaut"

\* ProjectManager.maxProjects and APP_CONFIG.MAX_PROJECT_SIZE
maxProjects    == 50
maxProjectSize == 5242880

\* the serialized length of a project without its objects
ProjectBaseBytes == 600

\* the timestamps the clock can hand out
MaxClock == 3

\* the text of an input field: its value, the value trimmed, whether the
\* trimmed value is longer than 50 characters, whether it matches the
\* pattern of allowed characters
TextInput(value, trimmed, tooLong, valid) ==
    [value |-> value, trimmed |-> trimmed, tooLong |-> tooLong, valid |-> valid]

\* the input holding a name that was accepted before
Clean(name) == TextInput(name, name, FALSE, TRUE)

Names == {"P1", "P2"}

\* what the user types as the project name
NameInputs ==
    { Clean("P1"), Clean("P2"),
      TextInput(" P1 ", "P1", FALSE, TRUE),
      TextInput("   ", "", FALSE, FALSE),
      TextInput("P/1", "P/1", FALSE, FALSE),
      TextInput("P...P (51 characters)", "P...P (51 characters)", TRUE, TRUE) }

TypeProjectName(in) ==
    /\ ProjectStep
    /\ nameInput # in
    /\ nameInput' = in
    /\ UserOp("typeProjectName")
    /\ UNCHANGED <<_currentProjectName, currentProjectName, localStorage, saveStatus,
                   clock, storageFault, savedAt, activeProject, deleted, canvasVars, zoomVars,
                   pending, grayVars, sideVars, wsVars>>

\* the map a storage item holds once JSON.parse has run, {} for a missing item
Parsed(item) == IF item = <<>> THEN <<>> ELSE item[1]

\* how many stored projects are newer than the one called name
Newer(projects, name) ==
    Cardinality({n \in DOMAIN projects :
                    projects[n].timestamp > projects[name].timestamp})

\* validateAndCleanupProjects: the maxProjects newest valid projects
ValidateAndCleanupProjects(projects) ==
    LET kept == {n \in DOMAIN projects : Newer(projects, n) < maxProjects}
    IN  [n \in kept |-> projects[n]]

\* ProjectManager.getAllProjects(): read from the versioned key
GetAllProjects == ValidateAndCleanupProjects(Parsed(localStorage.projects))

\* compressProjectData on one object: properties at their default are deleted
Compress(o) ==
    [o EXCEPT !.scaleX = IF @ = RInt(1) THEN Null ELSE @,
              !.scaleY = IF @ = RInt(1) THEN Null ELSE @]

\* what enlivenObjects makes of a stored object: missing properties take
\* the library defaults
Enliven(d) ==
    [d EXCEPT !.scaleX = IF @ = Null THEN RInt(1) ELSE @,
              !.scaleY = IF @ = Null THEN RInt(1) ELSE @]

\* every object of the canvas serialized
GetCanvasObjectsForSave_Unfiltered(objs) ==
    Let(LAMBDA kept : [k \in 1..Len(kept) |-> ToObject(kept[k])], objs)

\* getCanvasObjectsForSave(): the serialized objects not flagged excludeFromExport

GetCanvasObjectsForSave(objs) ==
    Let(LAMBDA kept : [k \in 1..Len(kept) |-> ToObject(kept[k])], UserObjects(objs))

RECURSIVE SumBytes(_)
SumBytes(list) == IF list = <<>> THEN 0 ELSE Head(list).bytes + SumBytes(Tail(list))

\* the variant that measures the project without its objects
GetProjectSize_BaseOnly(project) == ProjectBaseBytes

\* getProjectSize(projectData): the length of the serialized project
GetProjectSize(project) == ProjectBaseBytes + SumBytes(project.objects)

\* the map m with key k set to v
Put(m, k, v) == [n \in (DOMAIN m) \cup {k} |-> IF n = k THEN v ELSE m[n]]

\* the map m without key k
Drop(m, k) == [n \in (DOMAIN m) \ {k} |-> m[n]]

\* how localStorage.setItem may end for the pair of writes of a save
SaveOutcomes == {"none", "quotaOnProjects", "quotaOnPointer"}

\* no project was deleted, or the one that was is stored again
NoneDeleted == [name |-> NoName, wasActive |-> FALSE, wasStored |-> FALSE]
Restored(projectName) == IF deleted.name = projectName THEN NoneDeleted ELSE deleted

\* ProjectManager.saveCurrentProject(), called from the save button
\* (caller "user") or from the auto-save timer (caller "timer")
SaveProject(outcome, caller) ==
    LET projectName == nameInput.trimmed
        objectsToSave == GetCanvasObjectsForSave(objects)
        projectData ==
            [name |-> projectName, timestamp |-> clock, zoom |-> _currentZoom,
             viewport |-> viewportTransform,
             objects |-> [k \in 1..Len(objectsToSave) |-> Compress(objectsToSave[k])],
             workspace |-> <<_width, _height>>]
        allProjects == Put(GetAllProjects, projectName, projectData)
        rejected == projectName = "" \/ nameInput.tooLong \/ ~nameInput.valid
        tooLarge == GetProjectSize(projectData) > maxProjectSize
    IN  /\ clock < MaxClock
        /\ ProjectStep
        /\ Idle
        /\ IF rejected
             THEN /\ outcome = "none"
                  /\ lastOp' = IF caller = "user" THEN "saveRejected"
                               ELSE "autoSaveRejected"
                  /\ storageFault' = "none"
                  /\ UNCHANGED <<_currentProjectName, currentProjectName, localStorage,
                                 nameInput, saveStatus, clock, savedAt, activeProject,
                                 deleted>>
             ELSE /\ lastOp' = IF caller = "user" THEN "saveCurrentProject"
                               ELSE "autoSave"
                  /\ clock' = clock + 1
                  /\ storageFault' = IF tooLarge THEN "none" ELSE outcome
                  /\ UNCHANGED <<currentProjectName, nameInput>>
                  /\ IF tooLarge
                       THEN /\ outcome = "none"
                            /\ saveStatus' = "error"
                            /\ UNCHANGED <<localStorage, _currentProjectName, savedAt,
                                           activeProject, deleted>>
                       ELSE CASE outcome = "quotaOnProjects" ->
                                   /\ saveStatus' = "error"
                                   /\ UNCHANGED <<localStorage, _currentProjectName,
                                                  savedAt, activeProject, deleted>>
                              [] outcome = "quotaOnPointer" ->
                                   /\ saveStatus' = "error"
                                   /\ localStorage' =
                                         [localStorage EXCEPT !.projects = <<allProjects>>]
                                   /\ savedAt' = [savedAt EXCEPT ![projectName] =
                                         <<[objects |-> UserObjects(objects),
                                            viewport |-> viewportTransform,
                                            workspace |-> <<_width, _height>>]>>]
                                   /\ deleted' = Restored(projectName)
                                   /\ UNCHANGED <<_currentProjectName, activeProject>>
                              [] outcome = "none" ->
                                   /\ saveStatus' = "success"
                                   /\ localStorage' =
                                         [localStorage EXCEPT !.projects = <<allProjects>>,
                                                              !.current = projectName]
                                   /\ _currentProjectName' = projectName
                                   /\ activeProject' = projectName
                                   /\ deleted' = Restored(projectName)
                                   /\ savedAt' = [savedAt EXCEPT ![projectName] =
                                         <<[objects |-> UserObjects(objects),
                                            viewport |-> viewportTransform,
                                            workspace |-> <<_width, _height>>]>>]
        /\ loaded' = [loaded EXCEPT !.clean = FALSE]
        /\ UNCHANGED <<canvasVars, zoomVars, pending, grayVars, sideVars, wsVars>>

\* saveCurrentProject(): the save button
SaveCurrentProject(outcome) == SaveProject(outcome, "user")

\* the name newProject() gives the project
NewProjectName == "Nouveau projet"

\* newProject(): once confirmed, the user objects go, the view is reset and
\* the global name and the input take the new-project name
NewProject(confirmed) ==
    /\ ProjectStep
    /\ IF ~confirmed
         THEN /\ UserOp("newProjectCancelled")
              /\ UNCHANGED <<objects, activeObject, viewportTransform, currentZoom,
                             currentProjectName, nameInput, saveStatus>>
         ELSE /\ LET cs == CanvasRemove(objects, activeObject, NonOverlayIdx(objects))
                 IN  /\ objects' = cs.objects
                     /\ activeObject' = cs.active
              /\ viewportTransform' = Identity
              /\ currentZoom' = RInt(1)
              /\ currentProjectName' = NewProjectName
              /\ nameInput' = Clean(NewProjectName)
              /\ saveStatus' = "info"
              /\ UserOp("newProject")
    /\ UNCHANGED <<copiedObject, exported, gridSnappingEnabled, _currentZoom, measureThrottle,
                   zoomUpdateThrottle, steps, _currentProjectName, localStorage,
                   clock, storageFault, savedAt, activeProject, deleted, pending,
                   grayVars, sideVars, wsVars>>

\* the variant that asks for a name other than both default names
AutoSaveTick_BothDefaults(outcome) ==
    IF /\ UserCount(objects) > 0
       /\ currentProjectName # ""
       /\ currentProjectName # NewProjectName
       /\ currentProjectName # DefaultProjectName
    THEN SaveProject(outcome, "timer")
    ELSE /\ outcome = "none"
         /\ Idle
         /\ lastOp' = "autoSaveSkipped"
         /\ lastOp # "autoSaveSkipped"
         /\ UNCHANGED <<wsVars, grayVars, appVars, sideVars>>

\* one tick of the interval enableAutoSave() sets: the global name decides,
\* the save takes the name from the input
AutoSaveTick(outcome) ==
    IF /\ UserCount(objects) > 0
       /\ currentProjectName # ""
       /\ currentProjectName # NewProjectName
    THEN SaveProject(outcome, "timer")
    ELSE /\ outcome = "none"
         /\ Idle
         /\ lastOp' = "autoSaveSkipped"
         /\ lastOp # "autoSaveSkipped"
         /\ UNCHANGED <<wsVars, grayVars, appVars, sideVars>>

\* the callbacks an earlier load left behind are no longer those of the
\* load under observation
MarkStale(q) ==
    [k \in 1..Len(q) |->
        IF q[k].kind \in {"enliven", "restoreViewport"}
          THEN [q[k] EXCEPT !.stale = TRUE] ELSE q[k]]

\* the stored objects enlivenObjects revives at once, in order
RevivedNow(list) ==
    Let(LAMBDA shapes : [k \in 1..Len(shapes) |-> Enliven(shapes[k])],
        SelectSeq(list, LAMBDA d : d.type # "image"))

\* one callback for every stored image, which is revived once decoded
RevivedLater(list) ==
    Let(LAMBDA images : [k \in 1..Len(images) |->
                            [Callback("enliven") EXCEPT !.obj = <<Enliven(images[k])>>]],
        SelectSeq(list, LAMBDA d : d.type = "image"))

\* a load is started while fewer than MaxPending callbacks are outstanding
MaxPending == 2

\* what loadProject does once the project is found
LoadFound(projectName, projectData) ==
    \E cleared \in { CanvasRemove(objects, activeObject, NonOverlayIdx(objects)) } :
        /\ Len(pending) < MaxPending
        /\ objects' = cleared.objects \o RevivedNow(projectData.objects)
        /\ activeObject' = cleared.active
        /\ pending' = MarkStale(pending)
                      \o RevivedLater(projectData.objects)
                      \o <<[Callback("restoreViewport") EXCEPT
                               !.target = projectData.viewport,
                               !.zoom = projectData.zoom]>>
        /\ currentProjectName' = projectName
        /\ nameInput' = Clean(projectName)
        /\ localStorage' = [localStorage EXCEPT !.legacyCurrent = projectName]
        /\ saveStatus' = "success"
        /\ activeProject' = projectName
        /\ loaded' = [name |-> projectName, found |-> TRUE, clean |-> TRUE]

\* loadProject(projectName) with the canvas cleared before the lookup
LoadProject_ClearFirst(projectName) ==
    /\ ProjectStep
    /\ Idle
    /\ LET allProjects == GetAllProjects
           cleared == CanvasRemove(objects, activeObject, NonOverlayIdx(objects))
       IN  IF projectName \notin DOMAIN allProjects
             THEN /\ saveStatus' = "error"
                  /\ loaded' = [name |-> projectName, found |-> FALSE, clean |-> FALSE]
                  /\ objects' = cleared.objects
                  /\ activeObject' = cleared.active
                  /\ UNCHANGED <<pending, currentProjectName, nameInput, localStorage,
                                 activeProject>>
             ELSE LoadFound(projectName, allProjects[projectName])
    /\ lastOp' = "loadProject"
    /\ UNCHANGED <<copiedObject, exported, gridSnappingEnabled, _currentProjectName, clock, storageFault, savedAt,
                   deleted, zoomVars, grayVars, sideVars, wsVars>>

\* loadProject(projectName)
LoadProject(projectName) ==
    /\ ProjectStep
    /\ Idle
    /\ LET allProjects == GetAllProjects
       IN  IF projectName \notin DOMAIN allProjects
             THEN /\ saveStatus' = "error"
                  /\ loaded' = [name |-> projectName, found |-> FALSE, clean |-> FALSE]
                  /\ UNCHANGED <<objects, activeObject, pending, currentProjectName,
                                 nameInput, localStorage, activeProject>>
             ELSE LoadFound(projectName, allProjects[projectName])
    /\ lastOp' = "loadProject"
    /\ UNCHANGED <<copiedObject, exported, gridSnappingEnabled, _currentProjectName, clock, storageFault, savedAt,
                   deleted, zoomVars, grayVars, sideVars, wsVars>>

\* the callback of enlivenObjects for a stored image: canvas.add(obj)
EnlivenCallback(i) ==
    /\ i \in 1..Len(pending)
    /\ pending[i].kind = "enliven"
    /\ objects' = Append(objects, pending[i].obj[1])
    /\ pending' = RemoveAt(pending, i)
    /\ CallbackOp("enlivenCallback")
    /\ UNCHANGED <<activeObject, copiedObject, exported, gridSnappingEnabled, zoomVars, projectVars,
                   grayVars, sideVars, wsVars>>

\* the 100 ms timer of loadProject: timers of equal delay run in the order
\* they were set
RestoreViewport(i) ==
    /\ i \in 1..Len(pending)
    /\ pending[i].kind = "restoreViewport"
    /\ Idle
    /\ \A k \in 1..(i - 1) : pending[k].kind # "restoreViewport"
    /\ viewportTransform' = pending[i].target
    /\ currentZoom' = IF pending[i].zoom[1] # 0 THEN pending[i].zoom ELSE currentZoom
    /\ pending' = RemoveAt(pending, i)
    /\ CallbackOp("restoreViewport")
    /\ UNCHANGED <<_currentZoom, measureThrottle, zoomUpdateThrottle, steps,
                   canvasVars, projectVars, grayVars, sideVars, wsVars>>

\* deleteProject(projectName): the reduced map goes to PROJECTS_STORAGE_KEY,
\* the pointer under CURRENT_PROJECT_KEY is compared with the global variable
DeleteProject(projectName, confirmed) ==
    /\ ProjectStep
    /\ Idle
    /\ IF ~confirmed
         THEN /\ lastOp' = "deleteCancelled"
              /\ UNCHANGED <<localStorage, currentProjectName, nameInput, saveStatus,
                             activeProject, deleted>>
         ELSE /\ lastOp' = "deleteProject"
              /\ saveStatus' = "info"
              /\ deleted' = [name |-> projectName,
                             wasActive |-> activeProject = projectName,
                             wasStored |-> projectName \in DOMAIN GetAllProjects]
              /\ activeProject' = IF activeProject = projectName THEN NoName
                                  ELSE activeProject
              /\ IF currentProjectName = projectName
                   THEN /\ localStorage' =
                              [localStorage EXCEPT
                                  !.legacyProjects = <<Drop(GetAllProjects, projectName)>>,
                                  !.legacyCurrent = NoName]
                        /\ currentProjectName' = LegacyProjectName
                        /\ nameInput' = Clean(LegacyProjectName)
                   ELSE /\ localStorage' =
                              [localStorage EXCEPT
                                  !.legacyProjects = <<Drop(GetAllProjects, projectName)>>]
                        /\ UNCHANGED <<currentProjectName, nameInput>>
    /\ loaded' = [loaded EXCEPT !.clean = FALSE]
    /\ UNCHANGED <<_currentProjectName, clock, storageFault, savedAt, canvasVars, zoomVars,
                   pending, grayVars, sideVars, wsVars>>

\* duplicateProject(originalName): the prompt yields newName, the copy takes
\* a new name and timestamp, and the enlarged map goes to PROJECTS_STORAGE_KEY
DuplicateProject(originalName, newName, confirmed) ==
    /\ clock < MaxClock
    /\ ProjectStep
    /\ Idle
    /\ IF \/ originalName \notin DOMAIN GetAllProjects
          \/ newName \in DOMAIN GetAllProjects /\ ~confirmed
         THEN /\ lastOp' = "duplicateCancelled"
              /\ lastOp # "duplicateCancelled"
              /\ UNCHANGED <<localStorage, saveStatus, clock>>
         ELSE /\ lastOp' = "duplicateProject"
              /\ localStorage' =
                    [localStorage EXCEPT !.legacyProjects =
                        <<Put(GetAllProjects, newName,
                              [GetAllProjects[originalName] EXCEPT
                                  !.name = newName, !.timestamp = clock])>>]
              /\ clock' = clock + 1
              /\ saveStatus' = "success"
    /\ loaded' = [loaded EXCEPT !.clean = FALSE]
    /\ UNCHANGED <<_currentProjectName, currentProjectName, nameInput, storageFault, savedAt,
                   activeProject, deleted, canvasVars, zoomVars, pending, grayVars, sideVars,
                   wsVars>>

(***************************************************************************)
(* Start-up (main.js initApp, config.js)                                   *)
(***************************************************************************)
\* every name a project can be stored under
AllNames == Names \cup {LegacyProjectName}

EmptyStorage ==
    [projects |-> <<>>, current |-> NoName,
     legacyProjects |-> <<>>, legacyCurrent |-> NoName]

\* STORAGE_CONFIG.migrate(): a legacy item is copied where the versioned
\* item is missing
Migrate(storage) ==
    [storage EXCEPT
        !.projects = IF storage.legacyProjects # <<>> /\ storage.projects = <<>>
                       THEN storage.legacyProjects ELSE @,
        !.current  = IF storage.legacyCurrent # NoName /\ storage.current = NoName
                       THEN storage.legacyCurrent ELSE @]

\* the workspace configuration once initApp has drawn the grid
WorkspaceLoaded ==
    /\ _width = DEFAULT_WIDTH
    /\ _height = DEFAULT_HEIGHT
    /\ _pixelsPerMm = ComputePixelsPerMm(DEFAULT_WIDTH, DEFAULT_HEIGHT)
    /\ _usableArea = ComputeUsableArea(DEFAULT_WIDTH, DEFAULT_HEIGHT,
                                       ComputePixelsPerMm(DEFAULT_WIDTH, DEFAULT_HEIGHT))
    /\ legacyWidth = LegacyDefault
    /\ legacyHeight = LegacyDefault
    /\ readPpm = Null
    /\ readArea = NullArea

\* the workspace configuration set up again by a page load
WorkspaceReloaded ==
    /\ _width' = DEFAULT_WIDTH
    /\ _height' = DEFAULT_HEIGHT
    /\ _pixelsPerMm' = ComputePixelsPerMm(DEFAULT_WIDTH, DEFAULT_HEIGHT)
    /\ _usableArea' = ComputeUsableArea(DEFAULT_WIDTH, DEFAULT_HEIGHT,
                                        ComputePixelsPerMm(DEFAULT_WIDTH, DEFAULT_HEIGHT))
    /\ legacyWidth' = LegacyDefault
    /\ legacyHeight' = LegacyDefault
    /\ NoRead

\* the canvas initApp leaves: the grid overlay of the default workspace
InitialObjects ==
    AddGridOverlay(<<>>,
                   ComputeUsableArea(DEFAULT_WIDTH, DEFAULT_HEIGHT,
                                     ComputePixelsPerMm(DEFAULT_WIDTH, DEFAULT_HEIGHT)),
                   ComputePixelsPerMm(DEFAULT_WIDTH, DEFAULT_HEIGHT))

\* the page is loaded again: memory starts afresh, storage stays;
\* checkForSavedProjects() takes the name under CURRENT_PROJECT_KEY
Reload ==
    LET storage == Migrate(localStorage)
        allProjects == ValidateAndCleanupProjects(Parsed(storage.projects))
        last  == storage.legacyCurrent
        found == last # NoName /\ last \in DOMAIN allProjects
    IN  /\ localStorage' = storage
        /\ currentProjectName' = IF found THEN last ELSE DefaultProjectName
        /\ nameInput' = IF found THEN Clean(last) ELSE Clean(LegacyProjectName)
        /\ _currentProjectName' = DefaultProjectName
        /\ saveStatus' = "info"
        /\ objects' = InitialObjects
        /\ activeObject' = 0
        /\ copiedObject' = <<>>
        /\ viewportTransform' = Identity
        /\ _currentZoom' = RInt(1)
        /\ currentZoom' = RInt(1)
        /\ measureThrottle' = FALSE
        /\ zoomUpdateThrottle' = FALSE
        /\ pending' = <<>>
        /\ WorkspaceReloaded
        /\ loaded' = [name |-> NoName, found |-> FALSE, clean |-> FALSE]
        /\ activeProject' = NoName
        /\ lastOp' = "reload"
        /\ ProjectStep
        /\ gridSnappingEnabled' = FALSE
        /\ UNCHANGED <<exported, steps, clock, storageFault, savedAt, deleted, grayVars, sideVars>>

\* the application right after initApp, with the given items in storage
InitAppOn(store) ==
    /\ objects = InitialObjects
    /\ activeObject = 0
    /\ copiedObject = <<>>
    /\ exported = <<>>
    /\ gridSnappingEnabled = FALSE
    /\ viewportTransform = Identity
    /\ _currentZoom = RInt(1)
    /\ currentZoom = RInt(1)
    /\ measureThrottle = FALSE
    /\ zoomUpdateThrottle = FALSE
    /\ steps = 0
    /\ _currentProjectName = DefaultProjectName
    /\ currentProjectName = DefaultProjectName
    /\ localStorage = store
    /\ nameInput = Clean(LegacyProjectName)
    /\ saveStatus = "info"
    /\ clock = 0
    /\ projectSteps = 0
    /\ savedAt = [n \in AllNames |-> <<>>]
    /\ storageFault = "none"
    /\ activeProject = NoName
    /\ deleted = NoneDeleted
    /\ pending = <<>>
    /\ loaded = [name |-> NoName, found |-> FALSE, clean |-> FALSE]

\* the application right after initApp, with nothing in storage
InitApp == InitAppOn(EmptyStorage)

\* the same before the canvas exists
InitAppBlank ==
    /\ objects = <<>>
    /\ activeObject = 0
    /\ copiedObject = <<>>
    /\ exported = <<>>
    /\ gridSnappingEnabled = FALSE
    /\ viewportTransform = Identity
    /\ _currentZoom = RInt(1)
    /\ currentZoom = RInt(1)
    /\ measureThrottle = FALSE
    /\ zoomUpdateThrottle = FALSE
    /\ steps = 0
    /\ _currentProjectName = DefaultProjectName
    /\ currentProjectName = DefaultProjectName
    /\ localStorage = EmptyStorage
    /\ nameInput = Clean(LegacyProjectName)
    /\ saveStatus = "none"
    /\ clock = 0
    /\ projectSteps = 0
    /\ savedAt = [n \in AllNames |-> <<>>]
    /\ storageFault = "none"
    /\ activeProject = NoName
    /\ deleted = NoneDeleted
    /\ pending = <<>>
    /\ loaded = [name |-> NoName, found |-> FALSE, clean |-> FALSE]

\* the sizes typed into the workspace inputs: width and height in mm, 0 for a
\* field parseInt makes nothing of
ResizeInputs == { <<0, 5>> }

\* updateWorkspaceSize(), the handler of the two size inputs: the legacy
\* configuration takes the new size, setupWorkspaceArea() computes the area
\* and addGridOverlay() replaces every overlay by a new grid
UpdateWorkspaceSize(newWidth, newHeight) ==
    /\ legacyWidth' = Clamp(IF newWidth = 0 THEN LegacyDefault ELSE newWidth,
                            LegacyMin, LegacyMax)
    /\ legacyHeight' = Clamp(IF newHeight = 0 THEN LegacyDefault ELSE newHeight,
                             LegacyMin, LegacyMax)
    /\ \E ppm \in { LegacyPixelsPerMm(legacyWidth', legacyHeight') } :
       \E grid \in { AddGridOverlay(objects,
                                    ComputeUsableArea(legacyWidth', legacyHeight', ppm),
                                    ppm) } :
          /\ objects' = grid
          /\ activeObject' = IF activeObject = 0 THEN 0
                             ELSE NewIndex(NonOverlayIdx(objects), activeObject)
                                  + Len(grid) - UserCount(objects)
    /\ NoRead
    /\ UserOp("updateWorkspaceSize")
    /\ UNCHANGED <<_width, _height, _pixelsPerMm, _usableArea, copiedObject, exported, gridSnappingEnabled,
                   zoomVars, projectVars, pending, grayVars, sideVars>>

(***************************************************************************)
(* The service worker                                                      *)
(***************************************************************************)

\* a cache name is the sequence of its parts between hyphens
CACHE_NAME == <<"img2gcode", "v2.0.0">>
STATIC_CACHE_NAME == <<"img2gcode", "static", "v2.0.0">>
DYNAMIC_CACHE_NAME == <<"img2gcode", "dynamic", "v2.0.0">>

\* cacheName.startsWith('img2gcode-')
StartsWithAppPrefix(cacheName) ==
    Len(cacheName) > 1 /\ cacheName[1] = "img2gcode"

\* a URL: its host, the directories of its path, the file name, the extension
\* after the last dot and whether a query string follows
Url(host, dirs, file, ext, query) ==
    [host |-> host, dirs |-> dirs, file |-> file, ext |-> ext, query |-> query]

Self == "self"
Cdn == "cdnjs.cloudflare.com"
Local(dirs, file, ext) == Url(Self, dirs, file, ext, FALSE)

Root == Local(<<>>, "", "")
IndexHtml == Local(<<>>, "index", "html")
FabricJs == Url(Cdn, <<"ajax", "libs", "fabric.js", "5.3.0">>, "fabric.min",
                "js", FALSE)

STATIC_ASSETS ==
    { Root, IndexHtml,
      Local(<<>>, "styles", "css"),
      Local(<<"js">>, "config", "js"),
      Local(<<"js">>, "main", "js"),
      Local(<<"js">>, "canvas", "js"),
      Local(<<"js">>, "event-handlers", "js"),
      Local(<<"js">>, "object-management", "js"),
      Local(<<"js">>, "project-management", "js"),
      Local(<<"js">>, "zoom-pan", "js"),
      Local(<<"js">>, "export", "js"),
      Local(<<"js">>, "font-management", "js"),
      Local(<<"js">>, "image-processing", "js"),
      Local(<<"js">>, "debug-utils", "js"),
      Local(<<>>, "textEditor", "js"),
      FabricJs }

\* a pattern /\.(a|b)$/ tests the extension the URL ends with, a pattern
\* /\/dir\// tests the directories of the path
Extensions(exts) == [kind |-> "extension", exts |-> exts, dir |-> ""]
Directory(dir) == [kind |-> "directory", exts |-> {}, dir |-> dir]

Test(pattern, url) ==
    IF pattern.kind = "extension"
    THEN ~url.query /\ url.ext \in pattern.exts
    ELSE \E i \in 1..Len(url.dirs) : url.dirs[i] = pattern.dir

FontExtensions == {"woff", "woff2", "ttf", "eot"}
ImageExtensions == {"jpg", "jpeg", "png", "gif", "svg", "webp"}

\* the variant whose last list has the font extensions only
CACHE_STRATEGIES_FontsOnly ==
    [ static |-> { Extensions({"css", "js", "html"}), Directory("js"),
                   Directory("fonts"), Directory("images") },
      networkFirst |-> { Directory("api"), Extensions({"json"}) },
      staleWhileRevalidate |-> { Extensions(FontExtensions) } ]

\* CACHE_STRATEGIES: the three pattern lists
CACHE_STRATEGIES ==
    [ static |-> { Extensions({"css", "js", "html"}), Directory("js"),
                   Directory("fonts"), Directory("images") },
      networkFirst |-> { Directory("api"), Extensions({"json"}) },
      staleWhileRevalidate |-> { Extensions(FontExtensions),
                                 Extensions(ImageExtensions) } ]

Some(patterns, url) == \E pattern \in patterns : Test(pattern, url)

\* the variant that falls back to cache-first
getCachingStrategy_DefaultCacheFirst(url) ==
    IF Some(CACHE_STRATEGIES.static, url) THEN "cacheFirst"
    ELSE IF Some(CACHE_STRATEGIES.networkFirst, url) THEN "networkFirst"
    ELSE IF Some(CACHE_STRATEGIES.staleWhileRevalidate, url)
         THEN "staleWhileRevalidate"
    ELSE "cacheFirst"

\* getCachingStrategy: the first list with a matching pattern decides
getCachingStrategy(url) ==
    IF Some(CACHE_STRATEGIES.static, url) THEN "cacheFirst"
    ELSE IF Some(CACHE_STRATEGIES.networkFirst, url) THEN "networkFirst"
    ELSE IF Some(CACHE_STRATEGIES.staleWhileRevalidate, url)
         THEN "staleWhileRevalidate"
    ELSE "networkFirst"

\* caches.match(request): an entry for the URL in any cache
Match(storage, url) == \E cacheName \in DOMAIN storage : url \in storage[cacheName]

\* caches.open(name): the cache is created when it does not exist
CacheOpen(storage, cacheName) ==
    [n \in (DOMAIN storage) \cup {cacheName} |->
        IF n \in DOMAIN storage THEN storage[n] ELSE {}]

\* cache.put(request, response) on the cache caches.open(name) returned
CachePut(storage, cacheName, url) ==
    [n \in (DOMAIN storage) \cup {cacheName} |->
        IF n = cacheName
        THEN (IF n \in DOMAIN storage THEN storage[n] ELSE {}) \cup {url}
        ELSE storage[n]]

\* what a handler resolves with
CachedResponse(url) == [kind |-> "cached", url |-> url]
NetworkResponse(net) == [kind |-> net, url |-> Root]
IndexPage == [kind |-> "cached", url |-> IndexHtml]
SvgPlaceholder == [kind |-> "svgPlaceholder", url |-> Root]
ServiceUnavailable == [kind |-> "status503", url |-> Root]
NoResponse == [kind |-> "undefined", url |-> Root]
NotIntercepted == [kind |-> "notIntercepted", url |-> Root]

\* fetch(request) rejects, or resolves with a response of some status
NetworkOutcomes == {"failed", "status200", "status404"}

\* getFallbackResponse: caches.match('/index.html') resolves with undefined
\* when no cache holds the index page
getFallbackResponse(storage, request) ==
    IF request.destination = "document"
    THEN (IF Match(storage, IndexHtml) THEN IndexPage ELSE NoResponse)
    ELSE IF request.destination = "image" THEN SvgPlaceholder
    ELSE ServiceUnavailable

\* a handler's outcome: the response, the calls made in order, and whether
\* the dynamic cache was opened and written
Outcome(response, trace, opened, put) ==
    [response |-> response, trace |-> trace, opened |-> opened, put |-> put]

\* the variant that refreshes the entry from the network before answering
cacheFirst_Refresh(storage, request, net) ==
    IF Match(storage, request.url)
    THEN Outcome(CachedResponse(request.url), <<"match", "fetch">>,
                 net = "status200", net = "status200")
    ELSE IF net = "failed"
    THEN Outcome(getFallbackResponse(storage, request),
                 <<"match", "fetch", "fallback">>, FALSE, FALSE)
    ELSE Outcome(NetworkResponse(net), <<"match", "fetch">>,
                 net = "status200", net = "status200")

cacheFirst(storage, request, net) ==
    IF Match(storage, request.url)
    THEN Outcome(CachedResponse(request.url), <<"match">>, FALSE, FALSE)
    ELSE IF net = "failed"
    THEN Outcome(getFallbackResponse(storage, request),
                 <<"match", "fetch", "fallback">>, FALSE, FALSE)
    ELSE Outcome(NetworkResponse(net), <<"match", "fetch">>,
                 net = "status200", net = "status200")

networkFirst(storage, request, net) ==
    IF net # "failed"
    THEN Outcome(NetworkResponse(net), <<"fetch">>,
                 net = "status200", net = "status200")
    ELSE IF Match(storage, request.url)
    THEN Outcome(CachedResponse(request.url), <<"fetch", "match">>, FALSE, FALSE)
    ELSE Outcome(getFallbackResponse(storage, request),
                 <<"fetch", "match", "fallback">>, FALSE, FALSE)

\* staleWhileRevalidate: the catch of the background fetch returns nothing,
\* so without a cached entry a failed fetch resolves with undefined
staleWhileRevalidate(storage, request, net) ==
    Outcome(IF Match(storage, request.url) THEN CachedResponse(request.url)
            ELSE IF net = "failed" THEN NoResponse
            ELSE NetworkResponse(net),
            <<"match", "fetch">>, TRUE, net = "status200")

handleRequest(storage, request, strategy, net) ==
    IF strategy = "cacheFirst" THEN cacheFirst(storage, request, net)
    ELSE IF strategy = "networkFirst" THEN networkFirst(storage, request, net)
    ELSE staleWhileRevalidate(storage, request, net)

Request(url, method, scheme, destination) ==
    [url |-> url, method |-> method, scheme |-> scheme,
     destination |-> destination]

Get(url, destination) == Request(url, "GET", "https", destination)

\* the requests the pages of the application and its extensions make
Requests ==
    { Get(IndexHtml, "document"),
      Get(Root, "document"),
      Get(Local(<<>>, "styles", "css"), "style"),
      Get(Local(<<"js">>, "main", "js"), "script"),
      Get(Local(<<"js">>, "manifest", "json"), ""),
      Get(Local(<<"fonts">>, "roboto", "woff2"), "font"),
      Get(Local(<<"images">>, "logo", "png"), "image"),
      Get(Local(<<"assets">>, "logo", "png"), "image"),
      Get(Local(<<"assets">>, "roboto", "woff"), "font"),
      Get(Local(<<"assets">>, "photo", "jpeg"), "document"),
      Get(Url(Self, <<"assets">>, "logo", "png", TRUE), "image"),
      Get(Local(<<"api">>, "projects", ""), ""),
      Get(Local(<<"api">>, "export", "svg"), "image"),
      Get(Local(<<"data">>, "profiles", "json"), ""),
      Get(Local(<<"docs">>, "guide", "pdf"), "document"),
      Request(Local(<<"api">>, "projects", ""), "POST", "https", ""),
      Request(Local(<<"js">>, "main", "js"), "GET", "chrome-extension",
              "script") }

\* request.url.startsWith('http')
StartsWithHttp(scheme) == scheme \in {"http", "https"}

MaxWorkerSteps == 2
WorkerStep ==
    /\ workerSteps < MaxWorkerSteps
    /\ workerSteps' = workerSteps + 1

NoEvent ==
    [request |-> Get(Root, ""), strategy |-> "none", held |-> FALSE,
     indexHeld |-> FALSE, net |-> "none", response |-> NotIntercepted,
     trace |-> <<>>, before |-> [n \in {} |-> {}]]

pageVars == <<wsVars, grayVars, appVars, logVars, moduleVars, lastOp>>

\* the install listener: both caches are opened, addAll stores the local
\* assets all together or rejects, the external asset is added when it loads
Install(localOk, externalOk) ==
    /\ WorkerStep
    /\ \E opened \in { CacheOpen(CacheOpen(caches, STATIC_CACHE_NAME),
                                 DYNAMIC_CACHE_NAME) } :
        caches' = [n \in DOMAIN opened |->
            IF n = STATIC_CACHE_NAME /\ localOk
            THEN opened[n] \cup {url \in STATIC_ASSETS : url.host = Self}
            ELSE IF n = DYNAMIC_CACHE_NAME /\ externalOk
            THEN opened[n] \cup {url \in STATIC_ASSETS : url.host # Self}
            ELSE opened[n]]
    /\ fetchEvent' = [NoEvent EXCEPT !.strategy = "install", !.before = caches]
    /\ UNCHANGED pageVars

\* the variant that keeps the caches of the application only
Activate_KeepOwn ==
    /\ WorkerStep
    /\ caches' = [n \in {cacheName \in DOMAIN caches :
                            StartsWithAppPrefix(cacheName)} |-> caches[n]]
    /\ fetchEvent' = [NoEvent EXCEPT !.strategy = "activate", !.before = caches]
    /\ UNCHANGED pageVars

\* the activate listener
Activate ==
    /\ WorkerStep
    /\ caches' = [n \in {cacheName \in DOMAIN caches :
                            ~(/\ cacheName # STATIC_CACHE_NAME
                              /\ cacheName # DYNAMIC_CACHE_NAME
                              /\ StartsWithAppPrefix(cacheName))} |-> caches[n]]
    /\ fetchEvent' = [NoEvent EXCEPT !.strategy = "activate", !.before = caches]
    /\ UNCHANGED pageVars

\* the fetch listener with the handler it starts, run to completion
FetchEvent(request, net) ==
    /\ WorkerStep
    /\ IF request.method # "GET" \/ ~StartsWithHttp(request.scheme)
       THEN /\ fetchEvent' = [NoEvent EXCEPT !.request = request,
                                             !.strategy = "notIntercepted",
                                             !.before = caches]
            /\ caches' = caches
       ELSE \E strategy \in { getCachingStrategy(request.url) } :
            \E outcome \in { handleRequest(caches, request, strategy, net) } :
              /\ fetchEvent' = [request |-> request, strategy |-> strategy,
                                held |-> Match(caches, request.url),
                                indexHeld |-> Match(caches, IndexHtml),
                                net |-> net, response |-> outcome.response,
                                trace |-> outcome.trace, before |-> caches]
              /\ caches' = IF outcome.put
                           THEN CachePut(caches, DYNAMIC_CACHE_NAME, request.url)
                           ELSE IF outcome.opened
                           THEN CacheOpen(caches, DYNAMIC_CACHE_NAME)
                           ELSE caches
    /\ UNCHANGED pageVars

\* the caches an origin can hold before the worker starts: earlier versions
\* of the application's caches and caches of other code on the origin
OldStaticCache == <<"img2gcode", "static", "v1.0.0">>
ForeignCache == <<"workbox", "precache">>
BareCache == <<"img2gcode">>
CacheNames ==
    { CACHE_NAME, STATIC_CACHE_NAME, DYNAMIC_CACHE_NAME, OldStaticCache,
      ForeignCache, BareCache }

\* what a cache found at start holds
Found(cacheName) ==
    IF cacheName = OldStaticCache
    THEN { IndexHtml, Local(<<"fonts">>, "roboto", "woff2") }
    ELSE IF cacheName = ForeignCache
    THEN { Local(<<"assets">>, "logo", "png"), Local(<<"api">>, "projects", "") }
    ELSE IF cacheName = DYNAMIC_CACHE_NAME
    THEN { Local(<<"data">>, "profiles", "json"),
           Local(<<"assets">>, "roboto", "woff") }
    ELSE {}

InitWorkerState ==
    /\ caches = [n \in {} |-> {}]
    /\ fetchEvent = NoEvent
    /\ workerSteps = 0

(***************************************************************************)
(* The error log (ErrorHandler)                                            *)
(***************************************************************************)

\* how many entries ErrorHandler.log keeps
ErrorLogLimit == 50

\* what callers hand to ErrorHandler.log: an Error, or null, whose
\* error.toString() throws before the entry is built
ErrorValues == {"Error: failed", "null"}

\* an entry's timestamp is modelled by its place in the order of arrival

\* array.slice(-n) for an array longer than n
LastOf(list, n) == SubSeq(list, Len(list) - n + 1, Len(list))

\* array.slice(0, n)
FirstOf(list, n) == SubSeq(list, 1, n)

MaxLogCalls == 53

NotLogged == <<wsVars, grayVars, appVars, workerVars, moduleVars>>

\* the variant that keeps the oldest entries
Log_KeepOldest(error, context) ==
    /\ errorCount < MaxLogCalls
    /\ errorCount' = errorCount + 1
    /\ IF error = "null"
         THEN /\ lastOp' = "logThrew"
              /\ UNCHANGED <<errorLog, arrivals>>
         ELSE \E entry \in { [timestamp |-> Len(arrivals) + 1, context |-> context,
                               error |-> error] } :
                /\ lastOp' = "log"
                /\ arrivals' = Append(arrivals, entry)
                /\ errorLog' = IF Len(errorLog) + 1 > ErrorLogLimit
                                 THEN FirstOf(Append(errorLog, entry), ErrorLogLimit)
                                 ELSE Append(errorLog, entry)
    /\ UNCHANGED NotLogged

\* ErrorHandler.log(error, context)
Log(error, context) ==
    /\ errorCount < MaxLogCalls
    /\ errorCount' = errorCount + 1
    /\ IF error = "null"
         THEN /\ lastOp' = "logThrew"
              /\ UNCHANGED <<errorLog, arrivals>>
         ELSE \E entry \in { [timestamp |-> Len(arrivals) + 1, context |-> context,
                               error |-> error] } :
                /\ lastOp' = "log"
                /\ arrivals' = Append(arrivals, entry)
                /\ errorLog' = IF Len(errorLog) + 1 > ErrorLogLimit
                                 THEN LastOf(Append(errorLog, entry), ErrorLogLimit)
                                 ELSE Append(errorLog, entry)
    /\ UNCHANGED NotLogged

InitLogState ==
    /\ errorLog = <<>>
    /\ arrivals = <<>>
    /\ errorCount = 0

(***************************************************************************)
(* Machine profiles (MachineProfileManager, saveMachineProfileFromDialog)  *)
(***************************************************************************)
\* text is a sequence of characters; the characters the inputs are made of
LowerAlnum  == {"a", "e", "m", "1"}
Whitespace  == {" "}

\* String.prototype.toLowerCase on one character
ToLowerCase(c) == IF c = "M" THEN "m" ELSE c

\* the replacements of accented letters on one character
Unaccent(c) == IF c = "é" THEN "e" ELSE c

\* String.prototype.trim
RECURSIVE TrimStart(_)
TrimStart(text) ==
    IF text # <<>> /\ Head(text) \in Whitespace THEN TrimStart(Tail(text)) ELSE text

RECURSIVE TrimEnd(_)
TrimEnd(text) ==
    IF text # <<>> /\ text[Len(text)] \in Whitespace
      THEN TrimEnd(SubSeq(text, 1, Len(text) - 1))
      ELSE text

Trim(text) == TrimEnd(TrimStart(text))

\* replace(/\s+/g, '_'): every run of whitespace becomes one underscore
RECURSIVE JoinWords(_)
JoinWords(text) ==
    IF text = <<>> THEN <<>>
    ELSE IF Head(text) \in Whitespace
           THEN <<"_">> \o JoinWords(TrimStart(text))
           ELSE <<Head(text)>> \o JoinWords(Tail(text))

\* substring(0, 30)
KeyLimit == 30

\* MachineProfileManager.sanitizeKey(key)
sanitizeKey(key) ==
    LET lower  == [i \in 1..Len(key) |-> ToLowerCase(key[i])]
        plain  == [i \in 1..Len(lower) |-> Unaccent(lower[i])]
        kept   == SelectSeq(plain, LAMBDA c : c \in LowerAlnum \cup Whitespace)
        joined == JoinWords(kept)
    IN  SubSeq(joined, 1, IF Len(joined) < KeyLimit THEN Len(joined) ELSE KeyLimit)

\* a text of n letters a
Letters(n) == [i \in 1..n |-> "a"]

\* what the user types into the key field
KeyInputs ==
    { <<"m", "1">>, <<"M", "1">>, <<" ", "m", "1">>, <<"m", " ", "1">>,
      <<"m", "_", "1">>, <<"é">>, <<"e">>, <<" ">>,
      Letters(KeyLimit), Letters(KeyLimit + 1) }

\* what the user types into the name field
ProfileNameInputs == { <<"a">>, <<"e", " ">>, <<>> }

\* the most profiles saved from the dialog in one behaviour
MaxProfileSaves == 3

\* saveMachineProfileFromDialog(): the existence test looks up the key as
\* typed, saveProfile stores under the sanitized key, persists the map and
\* setCurrentProfile selects the saved profile
SaveMachineProfileFromDialog(nameValue, keyValue, confirmed) ==
    LET name == Trim(nameValue)
        key  == Trim(keyValue)
        sanitizedKey == sanitizeKey(key)
        profile ==
            [name |-> name, key |-> sanitizedKey,
             created |-> IF sanitizedKey \in DOMAIN profiles
                           THEN profiles[sanitizedKey].created ELSE profileClock,
             modified |-> profileClock]
        saved == Put(profiles, sanitizedKey, profile)
    IN  /\ profileClock < MaxProfileSaves
        /\ IF name = <<>> \/ key = <<>>
             THEN /\ lastOp' = "profileInputRequired"
                  /\ UNCHANGED profileVars
             ELSE IF key \in DOMAIN profiles /\ ~confirmed
             THEN /\ lastOp' = "profileSaveDeclined"
                  /\ confirmation' = "declined"
                  /\ UNCHANGED <<profiles, currentProfile, profileStorage, profileClock>>
             ELSE /\ lastOp' = "saveMachineProfile"
                  /\ confirmation' = IF key \in DOMAIN profiles THEN "accepted"
                                     ELSE "notAsked"
                  /\ profiles' = saved
                  /\ currentProfile' = sanitizedKey
                  /\ profileStorage' = [machineProfiles |-> <<saved>>,
                                        currentMachineProfile |-> <<sanitizedKey>>]
                  /\ profileClock' = profileClock + 1
        /\ UNCHANGED <<wsVars, grayVars, appVars, workerVars, logVars, eventVars>>

InitProfileState ==
    /\ profiles = [k \in {} |-> {}]
    /\ currentProfile = <<>>
    /\ profileStorage = [machineProfiles |-> <<>>, currentMachineProfile |-> <<>>]
    /\ confirmation = "notAsked"
    /\ profileClock = 0

(***************************************************************************)
(* The event bus (config.js AppEvents), for one event name.  No module of  *)
(* the program registers a listener; the listeners here stand for client   *)
(* code.                                                                   *)
(***************************************************************************)
\* what a callback does when invoked: return, throw, or emit the same event
\* again the first time it runs
Behaviours == {"returns", "throws", "emitsAgain"}

\* the most callbacks registered and the most emits made by client code
MaxListeners == 3
MaxEmits == 3

\* a Set without one of its members
Without(ids, id) == SelectSeq(ids, LAMBDA x : x # id)

Members(ids) == {ids[k] : k \in 1..Len(ids)}

\* emit(event): Set.forEach visits the callbacks in insertion order and
\* passes over one deleted before its turn; each call is wrapped in try/catch.
\* The wrapper made by once calls the callback and then off: a callback that
\* throws leaves the wrapper in the set.
RECURSIVE Deliver(_, _)
RECURSIVE Invoke(_, _)
RECURSIVE Emitted(_)

Deliver(bus, order) ==
    IF order = <<>> THEN bus
    ELSE IF Head(order) \notin Members(bus.listeners)
           THEN Deliver(bus, Tail(order))
           ELSE Deliver(Invoke([bus EXCEPT !.calls[Head(order)] = @ + 1], Head(order)),
                        Tail(order))

Invoke(bus, id) ==
    LET ran == IF registered[id].behaviour = "emitsAgain" /\ bus.calls[id] = 1
                 THEN Emitted(bus) ELSE bus
    IN  IF registered[id].once /\ registered[id].behaviour # "throws"
          THEN [ran EXCEPT !.listeners = Without(@, id)]
          ELSE ran

Emitted(bus) == Deliver(bus, bus.listeners)

\* on(event, callback) and once(event, callback) with a new callback
Register(once, behaviour) ==
    /\ Len(registered) < MaxListeners
    /\ registered' = Append(registered, [once |-> once, behaviour |-> behaviour])
    /\ listeners' = Append(listeners, Len(registered) + 1)
    /\ calls' = Append(calls, 0)
    /\ lastOp' = IF once THEN "once" ELSE "on"
    /\ UNCHANGED <<skipped, emits, wsVars, grayVars, appVars, workerVars, logVars,
                   profileVars>>

On(behaviour) == Register(FALSE, behaviour)

Once(behaviour) == Register(TRUE, behaviour)

\* off(event, callback) for a callback registered with on
Off(id) ==
    /\ id \in Members(listeners)
    /\ ~registered[id].once
    /\ listeners' = Without(listeners, id)
    /\ lastOp' = "off"
    /\ UNCHANGED <<registered, calls, skipped, emits, wsVars, grayVars, appVars,
                   workerVars, logVars, profileVars>>

\* emit(event, data) from client code
Emit ==
    /\ emits < MaxEmits
    /\ listeners # <<>>
    /\ \E bus \in { Emitted([listeners |-> listeners, calls |-> calls]) } :
          /\ listeners' = bus.listeners
          /\ calls' = bus.calls
          /\ skipped' = \E id \in Members(listeners) : bus.calls[id] = calls[id]
    /\ emits' = emits + 1
    /\ lastOp' = "emit"
    /\ UNCHANGED <<registered, wsVars, grayVars, appVars, workerVars, logVars, profileVars>>

InitEventState ==
    /\ listeners = <<>>
    /\ registered = <<>>
    /\ calls = <<>>
    /\ skipped = FALSE
    /\ emits = 0

InitModuleState == InitProfileState /\ InitEventState

(***************************************************************************)
(* Specifications                                                          *)
(***************************************************************************)
vars == <<wsVars, grayVars, appVars, sideVars, lastOp>>

InitWorkspaceState ==
    /\ _width = DEFAULT_WIDTH
    /\ _height = DEFAULT_HEIGHT
    /\ _pixelsPerMm = Null
    /\ _usableArea = NullArea
    /\ legacyWidth = LegacyDefault
    /\ legacyHeight = LegacyDefault
    /\ readPpm = Null
    /\ readArea = NullArea

InitGrayState ==
    /\ data = <<>>
    /\ original = <<>>

\* the workspace configuration on its own
InitWorkspace ==
    /\ InitWorkspaceState
    /\ InitGrayState
    /\ InitAppBlank
    /\ InitWorkerState
    /\ InitLogState
    /\ InitModuleState
    /\ lastOp = "init"

NextWorkspace ==
    \/ \E value \in DimensionInputs : SetWidth(value)
    \/ \E value \in DimensionInputs : SetHeight(value)
    \/ \E presetName \in PresetNames : ApplyPreset(presetName)
    \/ ReadPixelsPerMm
    \/ ReadUsableArea
    \/ \E w \in LegacyInputs, h \in LegacyInputs : SetWorkingArea(w, h)
    \/ ReadLegacyPixelsPerMm

SpecWorkspace == InitWorkspace /\ [][NextWorkspace]_vars

\* the grayscale filter on every sample image
InitGray ==
    /\ InitWorkspaceState
    /\ InitAppBlank
    /\ InitWorkerState
    /\ InitLogState
    /\ InitModuleState
    /\ \E n \in 1..MaxPixels : data \in Images(n)
    /\ original = data
    /\ lastOp = "drawImage"

NextGray == ConvertToGrayscale

SpecGray == InitGray /\ [][NextGray]_vars

\* the viewport: every operation that changes the zoom, on a canvas with a
\* rectangle the precision dialog can resize
InitZoom ==
    /\ WorkspaceLoaded
    /\ InitGrayState
    /\ InitApp
    /\ InitWorkerState
    /\ InitLogState
    /\ InitModuleState
    /\ lastOp = "init"

NextZoom ==
    \/ AddRectangle
    \/ \E in \in PrecisionInputs : ApplyPrecisionChanges(in)
    \/ \E zoom \in ZoomTargets : SetZoom(zoom)
    \/ zoomIn
    \/ zoomOut
    \/ resetZoom
    \/ \E deltaY \in {-100, 100}, point \in WheelPoints : MouseWheel(deltaY, point)
    \/ \E dir \in PanDirections : PanBy(dir)
    \/ \E zoom \in ZoomTargets : SmoothZoom(zoom)
    \/ \E i \in 1..Len(pending) : ZoomFrame(i)
    \/ \E container \in ContainerSizes : FitToWindow(container)
    \/ \E i \in 1..Len(pending) : FitFrame(i)
    \/ \E in \in AreaInputs : ZoomToArea(in)
    \/ zoomToSelection
    \/ ReleaseMeasureThrottle
    \/ ReleaseZoomUpdateThrottle

SpecZoom == InitZoom /\ [][NextZoom]_vars

\* projects: objects are created and moved, the view is changed, projects
\* are saved, loaded and deleted, the page is loaded again
NextProject ==
    \/ AddRectangle
    \/ \E img \in ImageInputs : CreateFabricImage(img)
    \/ \E target \in DragTargets : MoveSelected(target[1], target[2])
    \/ \E in \in AreaInputs : ZoomToArea(in)
    \/ \E projectName \in Names : TypeProjectName(Clean(projectName))
    \/ SaveCurrentProject("none")
    \/ \E projectName \in AllNames : LoadProject(projectName)
    \/ \E i \in 1..Len(pending) : EnlivenCallback(i)
    \/ \E i \in 1..Len(pending) : RestoreViewport(i)
    \/ \E projectName \in AllNames, confirmed \in BOOLEAN :
          DeleteProject(projectName, confirmed)
    \/ Reload

SpecProject == InitZoom /\ [][NextProject]_vars

\* the canvas: objects, rulers, indicators and grids are drawn, objects are
\* copied and pasted, the canvas is saved and exported
NextCanvas ==
    \/ AddRectangle
    \/ CreateFabricImage(SmallImage)
    \/ ClearSelection
    \/ ToggleMeasurementRulers
    \/ resetZoom
    \/ CopyObject
    \/ PasteObject
    \/ \E i \in 1..Len(pending) : PasteCallback(i)
    \/ \E size \in ResizeInputs : UpdateWorkspaceSize(size[1], size[2])
    \/ SaveCurrentProject("none")
    \/ DownloadGcode

SpecCanvas == InitZoom /\ [][NextCanvas]_vars

\* the service worker on an origin that holds any of the caches found at start
InitWorker ==
    /\ InitWorkspaceState
    /\ InitGrayState
    /\ InitAppBlank
    /\ InitLogState
    /\ InitModuleState
    /\ \E names \in SUBSET CacheNames : caches = [n \in names |-> Found(n)]
    /\ fetchEvent = NoEvent
    /\ workerSteps = 0
    /\ lastOp = "init"

NextWorker ==
    \/ \E localOk \in BOOLEAN, externalOk \in BOOLEAN : Install(localOk, externalOk)
    \/ Activate
    \/ \E request \in Requests, net \in NetworkOutcomes : FetchEvent(request, net)

SpecWorker == InitWorker /\ [][NextWorker]_vars

\* saving: any name typed into the input, a canvas that is empty, small or
\* too large to store, and a storage that accepts or refuses each write
NextSave ==
    \/ AddRectangle
    \/ CreateFabricImage(HugeImage)
    \/ \E in \in NameInputs : TypeProjectName(in)
    \/ \E outcome \in SaveOutcomes : SaveCurrentProject(outcome)

\* the error log under any sequence of calls
InitLog ==
    /\ InitWorkspaceState
    /\ InitGrayState
    /\ InitAppBlank
    /\ InitWorkerState
    /\ InitLogState
    /\ InitModuleState
    /\ lastOp = "init"

NextLog == \E error \in ErrorValues : Log(error, "initApp")

SpecLog == InitLog /\ [][NextLog]_vars

SpecSave == InitZoom /\ [][NextSave]_vars

\* objects added, copied once, pasted and measured, then removed or cleared
NextClear ==
    \/ AddRectangle
    \/ copiedObject = <<>> /\ CopyObject
    \/ PasteObject
    \/ ClearSelection
    \/ resetZoom
    \/ ToggleMeasurementRulers
    \/ RemoveSelected
    \/ \E confirmed \in BOOLEAN : ClearCanvas(confirmed)

\* the most projects found in storage at start
MaxStored == 51

\* the name of the i-th project saved in an earlier session
EarlierName(i) == "Q" \o ToString(i)

\* count projects saved in earlier sessions, one after the other, the
\* first one the oldest
EarlierProjects(count) ==
    [n \in {EarlierName(i) : i \in 1..count} |->
        [name |-> n,
         timestamp |-> (CHOOSE i \in 1..count : EarlierName(i) = n) - count - 1,
         zoom |-> RInt(1), viewport |-> Identity, objects |-> <<>>,
         workspace |-> <<DEFAULT_WIDTH, DEFAULT_HEIGHT>>]]

\* a session that starts with none, one, maxProjects or maxProjects + 1
\* projects in storage
InitStored ==
    /\ WorkspaceLoaded
    /\ InitGrayState
    /\ \E count \in {0, 1, maxProjects, MaxStored} :
          InitAppOn([EmptyStorage EXCEPT !.projects = <<EarlierProjects(count)>>])
    /\ InitWorkerState
    /\ InitLogState
    /\ InitModuleState
    /\ lastOp = "init"

NextStored ==
    \/ AddRectangle
    \/ \E target \in DragTargets : MoveSelected(target[1], target[2])
    \/ \E in \in NameInputs : TypeProjectName(in)
    \/ \E outcome \in SaveOutcomes : SaveCurrentProject(outcome)

SpecStored == InitStored /\ [][NextStored]_vars

\* machine profiles saved from the dialog
NextProfiles ==
    \E nameValue \in ProfileNameInputs, keyValue \in KeyInputs, confirmed \in BOOLEAN :
        SaveMachineProfileFromDialog(nameValue, keyValue, confirmed)

SpecProfiles == InitZoom /\ [][NextProfiles]_vars

\* client code registering callbacks and emitting the event
NextEvents ==
    \/ \E behaviour \in Behaviours : On(behaviour)
    \/ \E behaviour \in Behaviours : Once(behaviour)
    \/ \E id \in 1..Len(registered) : Off(id)
    \/ Emit

SpecEvents == InitZoom /\ [][NextEvents]_vars

SpecClear == InitZoom /\ [][NextClear]_vars

\* projects saved under two names and duplicated
NextDuplicate ==
    \/ AddRectangle
    \/ \E target \in DragTargets : MoveSelected(target[1], target[2])
    \/ \E projectName \in Names : TypeProjectName(Clean(projectName))
    \/ SaveCurrentProject("none")
    \/ \E originalName \in Names, newName \in Names, confirmed \in BOOLEAN :
          DuplicateProject(originalName, newName, confirmed)

SpecDuplicate == InitZoom /\ [][NextDuplicate]_vars

\* selection, move and zoom events on up to two objects
NextIndicators ==
    \/ AddRectangle
    \/ copiedObject = <<>> /\ CopyObject
    \/ PasteObject
    \/ \E i \in 1..Len(objects) : SelectObject(i)
    \/ ClearSelection
    \/ \E target \in DragTargets : MoveSelected(target[1], target[2])
    \/ zoomIn
    \/ resetZoom
    \/ ReleaseMeasureThrottle

SpecIndicators == InitZoom /\ [][NextIndicators]_vars

\* objects dragged with grid snapping switched on and off
NextSnap ==
    \/ AddRectangle
    \/ ToggleGridSnapping
    \/ \E target \in SnapTargets : MoveSelected(target[1], target[2])
    \/ \E value \in {Num(75), Num(100), Num(400)} : SetWidth(value)

SpecSnap == InitZoom /\ [][NextSnap]_vars

\* images of every sample size inserted into workspaces of every size the
\* setters accept
NextImage ==
    \/ \E value \in DimensionInputs : SetWidth(value)
    \/ \E value \in DimensionInputs : SetHeight(value)
    \/ \E img \in ImageInputs : CreateFabricImage(img)
    \/ RemoveSelected

SpecImage == InitZoom /\ [][NextImage]_vars

\* the auto-save timer beside the operations that change the project name
NextAutoSave ==
    \/ AddRectangle
    \/ \E projectName \in Names : TypeProjectName(Clean(projectName))
    \/ SaveCurrentProject("none")
    \/ \E confirmed \in BOOLEAN : NewProject(confirmed)
    \/ \E outcome \in SaveOutcomes : AutoSaveTick(outcome)
    \/ Reload

SpecAutoSave == InitZoom /\ [][NextAutoSave]_vars

\* animations started over one another: requestAnimationFrame runs the
\* callbacks in the order they were requested, so the oldest frame runs next
NextAnimation ==
    \/ \E zoom \in ZoomTargets : SmoothZoom(zoom)
    \/ \E zoom \in ZoomTargets : SmoothZoomDuringFit(zoom)
    \/ \E container \in ContainerSizes : FitToWindow(container)
    \/ \E container \in ContainerSizes : FitToWindowDuring(container)
    \/ ZoomFrame(1)
    \/ FitFrame(1)

SpecAnimation == InitZoom /\ [][NextAnimation]_vars


(***************************************************************************)
(* Claims                                                                  *)
(***************************************************************************)
WithinBounds ==
    /\ _width \in MIN_WIDTH..MAX_WIDTH
    /\ _height \in MIN_HEIGHT..MAX_HEIGHT

\* v = min(CANVAS_WIDTH / w, CANVAS_HEIGHT / h), stated without the getter
IsMinRatio(v, w, h) ==
    /\ v[2] > 0
    /\ v[1] * w <= CANVAS_WIDTH * v[2]
    /\ v[1] * h <= CANVAS_HEIGHT * v[2]
    /\ \/ v[1] * w = CANVAS_WIDTH * v[2]
       \/ v[1] * h = CANVAS_HEIGHT * v[2]

\* C1: in every state the canvas zoom and both tracked zoom values lie within
\* [MIN_ZOOM, MAX_ZOOM].
C1_ZoomWithinLimits ==
    \A z \in {Zoom, _currentZoom, currentZoom} : RLe(MIN_ZOOM, z) /\ RLe(z, MAX_ZOOM)

\* two lengths in mm that differ by at most a tenth of a millimetre
SameLength(a, b) == RLe(RSub(a, b), Rat(1, 10)) /\ RLe(RSub(b, a), Rat(1, 10))

\* C2: once loadProject(N) has found N and every deferred callback has run,
\* with no other operation since, the canvas holds as many non-overlay objects
\* as when N was saved, each at the same position and with the same mm
\* dimensions, and the viewport transform is the one saved.
C2_SaveLoadRoundTrip ==
    (/\ loaded.found
     /\ loaded.clean
     /\ Running({"enliven", "restoreViewport"}) = 0) =>
        \E saved \in { savedAt[loaded.name][1] } :
        \E now \in { UserObjects(objects) } :
        \E was \in { ComputePixelsPerMm(saved.workspace[1], saved.workspace[2]) } :
           /\ Len(now) = Len(saved.objects)
           /\ \A k \in 1..Len(now) :
                 /\ SameLength(RDiv(now[k].left, CurPpm), RDiv(saved.objects[k].left, was))
                 /\ SameLength(RDiv(now[k].top, CurPpm), RDiv(saved.objects[k].top, was))
                 /\ SameLength(WidthInMm(now[k], CurPpm), WidthInMm(saved.objects[k], was))
                 /\ SameLength(HeightInMm(now[k], CurPpm), HeightInMm(saved.objects[k], was))
           /\ viewportTransform = saved.viewport

\* C3: right after a confirmed deleteProject(N) of the project saved or loaded
\* last, neither persisted pointer names N and both in-memory names are a
\* default name.
C3_DeleteClearsActiveProject ==
    (lastOp = "deleteProject" /\ deleted.wasActive) =>
        /\ localStorage.current # deleted.name
        /\ localStorage.legacyCurrent # deleted.name
        /\ _currentProjectName \in {DefaultProjectName, LegacyProjectName}
        /\ currentProjectName \in {DefaultProjectName, LegacyProjectName}

\* C4: right after a confirmed deleteProject(N) of a stored project N, the
\* map getAllProjects returns has no N, and a loadProject(N) that follows
\* before N is saved again does not find it.
C4_DeletedProjectIsGone ==
    /\ (lastOp = "deleteProject" /\ deleted.wasStored) =>
          deleted.name \notin DOMAIN GetAllProjects
    /\ (lastOp = "loadProject" /\ deleted.wasStored /\ loaded.name = deleted.name) =>
          ~loaded.found

\* C5: a loadProject(N) that does not find N shows an error status and
\* leaves the canvas objects, the selection, the viewport, both zoom values,
\* both project names, the name input, the storage and the pending callbacks
\* as they were.
C5_LoadOfMissingProjectChangesNothing ==
    [][(lastOp' = "loadProject" /\ ~loaded'.found) =>
          /\ saveStatus' = "error"
          /\ UNCHANGED <<objects, activeObject, viewportTransform, _currentZoom,
                         currentZoom, _currentProjectName, currentProjectName,
                         nameInput, localStorage, pending>>]_vars

\* a load of the missing P2 while P1 is stored and the canvas holds an object
C5_Witness ==
    /\ lastOp = "loadProject"
    /\ ~loaded.found
    /\ loaded.name = "P2"
    /\ "P1" \in DOMAIN GetAllProjects
    /\ UserCount(objects) > 0

\* the objects of every project in a stored map
StoredObjects(item) ==
    UNION { { Parsed(item)[n].objects[k] : k \in 1..Len(Parsed(item)[n].objects) } :
            n \in DOMAIN Parsed(item) }

\* C6: no object flagged as an overlay (excludeFromExport, indicator, ruler)
\* is among the objects of a stored project or among the objects exported.
C6_NoOverlayStoredOrExported ==
    \A o \in StoredObjects(localStorage.projects)
              \cup StoredObjects(localStorage.legacyProjects)
              \cup { exported[k] : k \in 1..Len(exported) } :
        ~o.excludeFromExport /\ ~o.isIndicator /\ ~o.isRuler

\* a project saved with one object while the canvas showed the grid, the
\* rulers and the indicators of that object
C6_Witness ==
    /\ lastOp = "saveCurrentProject"
    /\ saveStatus = "success"
    /\ RulerIdx(objects) # {}
    /\ IndicatorIdx(objects) # {}
    /\ \E n \in DOMAIN GetAllProjects : Len(GetAllProjects[n].objects) = 1

\* C7: whatever the assignments made, the workspace width and height stay in
\* the [min, max] bounds, and a read of pixelsPerMm (of the current or of the
\* legacy configuration) returns min(canvasWidth / width, canvasHeight / height).
C7_PixelsPerMmIsMinRatio ==
    /\ WithinBounds
    /\ legacyWidth \in LegacyMin..LegacyMax
    /\ legacyHeight \in LegacyMin..LegacyMax
    /\ lastOp = "readPixelsPerMm" => IsMinRatio(readPpm, _width, _height)
    /\ lastOp = "readLegacyPixelsPerMm" => IsMinRatio(readPpm, legacyWidth, legacyHeight)

\* a read of pixelsPerMm at a non-square workspace whose height decides the ratio
C7_Witness ==
    /\ lastOp = "readPixelsPerMm"
    /\ _width = 75 /\ _height = 400
    /\ readPpm = <<3, 2>>

\* C8: the usable-area rectangle a read returns lies inside the canvas
\* rectangle [0, canvasWidth] x [0, canvasHeight].
C8_UsableAreaInsideCanvas ==
    lastOp = "readUsableArea" =>
        /\ RLe(RInt(0), readArea.offsetX)
        /\ RLe(RInt(0), readArea.offsetY)
        /\ RLe(RAdd(readArea.offsetX, readArea.width), RInt(CANVAS_WIDTH))
        /\ RLe(RAdd(readArea.offsetY, readArea.height), RInt(CANVAS_HEIGHT))

\* C9: every read of pixelsPerMm or usableArea returns the value computed from
\* the width and height current at the read, never one cached before a change.
C9_ReadsAreFresh ==
    /\ lastOp = "readPixelsPerMm" => readPpm = ComputePixelsPerMm(_width, _height)
    /\ lastOp = "readUsableArea" =>
          readArea = ComputeUsableArea(_width, _height,
                                       ComputePixelsPerMm(_width, _height))
    /\ _pixelsPerMm # Null => _pixelsPerMm = ComputePixelsPerMm(_width, _height)
    /\ _usableArea # NullArea =>
          _usableArea = ComputeUsableArea(_width, _height,
                                          ComputePixelsPerMm(_width, _height))

\* a read served after the dimensions were changed away from the defaults,
\* with both caches filled again
C9_Witness ==
    /\ lastOp = "readUsableArea"
    /\ _width = 500 /\ _height = 10
    /\ _pixelsPerMm = <<8, 5>>
    /\ readArea.width = <<800, 1>>

\* C10: after convertToGrayscale every pixel's three colour channels hold the
\* one value round(0.299R + 0.587G + 0.114B) of its original channels (the
\* integer nearest to the sum; where the sum is half-way between two integers,
\* the one the double falls to), that value is in 0..255, and the alpha
\* channel is as it was.
C10_GrayscaleIsRoundedLuminance ==
    lastOp = "convertToGrayscale" =>
        /\ Len(data) = Len(original)
        /\ \A k \in 0..(Len(original) \div 4 - 1) :
              LET i == 4 * k + 1
                  lum2000 == 2 * (299 * original[i] + 587 * original[i + 1]
                                  + 114 * original[i + 2])
                  v == data[i]
              IN  /\ data[i + 1] = v
                  /\ data[i + 2] = v
                  /\ v \in 0..255
                  /\ 2000 * v - 1000 <= lum2000
                  /\ lum2000 <= 2000 * v + 1000
                  /\ data[i + 3] = original[i + 3]

\* a converted two-pixel image: the sum of the first pixel is 22.5 and the
\* double rounded is below the half, the sum of the second is 149.685
C10_Witness ==
    /\ lastOp = "convertToGrayscale"
    /\ original = <<0, 36, 12, 255, 0, 255, 0, 255>>
    /\ data = <<22, 22, 22, 255, 150, 150, 150, 255>>


\* the event handled last is a fetch event for a GET request over http(s)
GetOverHttp ==
    /\ fetchEvent.strategy \notin {"none", "install", "activate"}
    /\ fetchEvent.request.method = "GET"
    /\ fetchEvent.request.scheme \in {"http", "https"}

InDirectory(url, dir) == \E i \in 1..Len(url.dirs) : url.dirs[i] = dir
EndsWith(url, exts) == ~url.query /\ url.ext \in exts

MatchesStatic(url) ==
    \/ EndsWith(url, {"css", "js", "html"})
    \/ InDirectory(url, "js")
    \/ InDirectory(url, "fonts")
    \/ InDirectory(url, "images")
MatchesApiOrJson(url) == InDirectory(url, "api") \/ EndsWith(url, {"json"})
EndsWithFontOrImage(url) ==
    EndsWith(url, {"woff", "woff2", "ttf", "eot", "jpg", "jpeg", "png", "gif",
                   "svg", "webp"})

Fetched == \E i \in 1..Len(fetchEvent.trace) : fetchEvent.trace[i] = "fetch"

\* C11: a GET http(s) request whose URL matches a static-asset pattern and
\* that the cache holds an entry for is answered with that entry, and no
\* network fetch is made for it
C11_CacheHitNeedsNoNetwork ==
    (/\ GetOverHttp
     /\ MatchesStatic(fetchEvent.request.url)
     /\ fetchEvent.held)
    => /\ fetchEvent.response = CachedResponse(fetchEvent.request.url)
       /\ ~Fetched
       /\ caches = fetchEvent.before

C11_Witness ==
    /\ GetOverHttp
    /\ fetchEvent.request.url = Local(<<"fonts">>, "roboto", "woff2")
    /\ fetchEvent.held
    /\ fetchEvent.net = "status200"
    /\ fetchEvent.response = CachedResponse(fetchEvent.request.url)

\* C12: a GET http(s) request whose URL matches none of the patterns is
\* handled network-first: the network is tried first, and the cache is
\* consulted only after the fetch has failed
C12_DefaultIsNetworkFirst ==
    (/\ GetOverHttp
     /\ ~MatchesStatic(fetchEvent.request.url)
     /\ ~MatchesApiOrJson(fetchEvent.request.url)
     /\ ~EndsWithFontOrImage(fetchEvent.request.url))
    => /\ fetchEvent.strategy = "networkFirst"
       /\ Len(fetchEvent.trace) > 0
       /\ fetchEvent.trace[1] = "fetch"
       /\ \A i \in 1..Len(fetchEvent.trace) :
            fetchEvent.trace[i] = "match" => i > 1 /\ fetchEvent.net = "failed"
       /\ fetchEvent.net # "failed"
            => fetchEvent.response = NetworkResponse(fetchEvent.net)

C12_Witness ==
    /\ GetOverHttp
    /\ fetchEvent.request.url = Local(<<"docs">>, "guide", "pdf")
    /\ fetchEvent.net = "failed"
    /\ fetchEvent.trace = <<"fetch", "match", "fallback">>

\* C13 as stated: every GET http(s) request whose URL ends with a font or
\* image extension is handled stale-while-revalidate, and every one whose URL
\* matches an API/JSON pattern is handled network-first
C13_StrategyByExtension ==
    GetOverHttp
    => /\ EndsWithFontOrImage(fetchEvent.request.url)
            => fetchEvent.strategy = "staleWhileRevalidate"
       /\ MatchesApiOrJson(fetchEvent.request.url)
            => fetchEvent.strategy = "networkFirst"

\* C13 amended: the lists are tried in order. Among the GET http(s) requests
\* whose URL matches no static-asset pattern, one matching an API/JSON
\* pattern is handled network-first, and one matching no API/JSON pattern
\* and ending with a font or image extension is handled
\* stale-while-revalidate; a URL matching a static-asset pattern is handled
\* cache-first whatever else it matches
C13_StrategyByFirstMatch ==
    GetOverHttp
    => /\ MatchesStatic(fetchEvent.request.url)
            => fetchEvent.strategy = "cacheFirst"
       /\ (~MatchesStatic(fetchEvent.request.url)
           /\ MatchesApiOrJson(fetchEvent.request.url))
            => fetchEvent.strategy = "networkFirst"
       /\ (/\ ~MatchesStatic(fetchEvent.request.url)
           /\ ~MatchesApiOrJson(fetchEvent.request.url)
           /\ EndsWithFontOrImage(fetchEvent.request.url))
            => fetchEvent.strategy = "staleWhileRevalidate"

C13_Witness ==
    /\ GetOverHttp
    /\ fetchEvent.request.url = Local(<<"images">>, "logo", "png")
    /\ fetchEvent.strategy = "cacheFirst"

\* C14 as stated: once the activate handler has completed, every cache whose
\* name is not one of the current versioned cache names has been deleted
C14_OnlyCurrentCachesRemain ==
    fetchEvent.strategy = "activate"
    => \A cacheName \in DOMAIN caches :
         cacheName \in {CACHE_NAME, STATIC_CACHE_NAME, DYNAMIC_CACHE_NAME}

\* C14 amended: once the activate handler has completed, every cache whose
\* name starts with 'img2gcode-' and is neither the static nor the dynamic
\* cache name has been deleted, and every other cache is as it was
C14_OldOwnCachesDeleted ==
    fetchEvent.strategy = "activate"
    => /\ \A cacheName \in DOMAIN caches :
            StartsWithAppPrefix(cacheName)
            => cacheName \in {STATIC_CACHE_NAME, DYNAMIC_CACHE_NAME}
       /\ \A cacheName \in DOMAIN fetchEvent.before :
            (~StartsWithAppPrefix(cacheName)
             \/ cacheName \in {STATIC_CACHE_NAME, DYNAMIC_CACHE_NAME})
            => /\ cacheName \in DOMAIN caches
               /\ caches[cacheName] = fetchEvent.before[cacheName]

C14_Witness ==
    /\ fetchEvent.strategy = "activate"
    /\ DOMAIN fetchEvent.before = CacheNames
    /\ DOMAIN caches = {STATIC_CACHE_NAME, DYNAMIC_CACHE_NAME, ForeignCache,
                        BareCache}

\* C15: under each strategy, when the network fetch fails and the cache
\* holds no entry for the request, the handler resolves with the fallback:
\* the cached index page for a document request, the SVG placeholder for an
\* image request, the 503 text response otherwise, and never with no response
C15_FallbackWhenOffline ==
    (/\ GetOverHttp
     /\ fetchEvent.net = "failed"
     /\ ~fetchEvent.held)
    => /\ fetchEvent.response # NoResponse
       /\ fetchEvent.response =
            IF fetchEvent.request.destination = "document" THEN IndexPage
            ELSE IF fetchEvent.request.destination = "image" THEN SvgPlaceholder
            ELSE ServiceUnavailable


\* a step of saveCurrentProject
SaveStep == lastOp' \in {"saveRejected", "saveCurrentProject"}

\* the save failed: it threw before or inside its try block
SaveFailed ==
    \/ lastOp' = "saveRejected"
    \/ lastOp' = "saveCurrentProject" /\ saveStatus' = "error"

\* the length of the project the canvas would be serialized to
SerializedBytes ==
    LET saved == GetCanvasObjectsForSave(objects)
    IN  ProjectBaseBytes + SumBytes([k \in 1..Len(saved) |-> Compress(saved[k])])

BadName == nameInput.trimmed = "" \/ nameInput.tooLong \/ ~nameInput.valid

\* C16: saveCurrentProject with a name that is empty after trimming, longer
\* than 50 characters or holding a character outside the allowed set, or
\* with a serialized project larger than the maximum project size, fails and
\* leaves the stored project map, the stored current-project pointer and
\* the in-memory current project name as they were
C16_RejectedSaveChangesNothing ==
    [][(SaveStep /\ (BadName \/ SerializedBytes > maxProjectSize)) =>
          /\ SaveFailed
          /\ UNCHANGED <<localStorage, _currentProjectName, currentProjectName>>]_vars

\* a project too large to store was refused under a valid name
C16_Witness ==
    /\ lastOp = "saveCurrentProject"
    /\ saveStatus = "error"
    /\ storageFault = "none"
    /\ nameInput = Clean("P1")
    /\ SerializedBytes > maxProjectSize
    /\ localStorage.projects = <<>>

\* C17: when a write to local storage fails during saveCurrentProject, on
\* either of its two writes, the failure is shown as an error status and the
\* stored project map, the stored current-project pointer and the in-memory
\* current project name are all as they were before the call
C17_FailedWriteHasNoEffect ==
    [][(SaveStep /\ storageFault' # "none") =>
          /\ saveStatus' = "error"
          /\ UNCHANGED <<localStorage, _currentProjectName, currentProjectName>>]_vars


\* a tick of the auto-save timer
TickStep == lastOp' \in {"autoSave", "autoSaveRejected", "autoSaveSkipped"}

\* C18: on every auto-save tick, nothing is written to storage when the
\* current project is unnamed or still carries a default name, the initial
\* default name or the new-project name
C18_NoAutoSaveUnderDefaultName ==
    [][(TickStep /\ currentProjectName \in {"", DefaultProjectName, NewProjectName})
          => UNCHANGED localStorage]_vars


\* C19: after any number of ErrorHandler.log calls the error log holds at
\* most 50 entries, and they are the errors logged most recently, in the
\* order they arrived
C19_ErrorLogIsLastFifty ==
    /\ Len(errorLog) <= 50
    /\ Len(errorLog) = IF Len(arrivals) < 50 THEN Len(arrivals) ELSE 50
    /\ \A k \in 1..Len(errorLog) :
         errorLog[k] = arrivals[Len(arrivals) - Len(errorLog) + k]

\* 52 errors were logged: the two oldest are gone
C19_Witness ==
    /\ Len(arrivals) = 52
    /\ Len(errorLog) = 50
    /\ errorLog[1].timestamp = arrivals[3].timestamp
    /\ errorLog[50] = arrivals[52]


\* a frame of an animation runs: the oldest one pending
FrameStep == lastOp' \in {"zoomFrame", "fitFrame"} /\ pending # <<>>

\* the viewport is the target of the animation the frame belongs to
AtTargetOf(frame) ==
    IF frame.kind = "fitFrame"
    THEN viewportTransform' = frame.target
    ELSE viewportTransform'[1] = ClampR(frame.target[1], MIN_ZOOM, MAX_ZOOM)

\* C20: when a zoom or fit animation is started while an earlier one still
\* has frames pending, the earlier one applies no further frame, and once
\* all frames have run the viewport is at the target of the animation
\* started last
C20_LatestAnimationWins ==
    [][FrameStep =>
          /\ ~Head(pending).stale
          /\ Running({"fitFrame", "zoomFrame"})' = 0 => AtTargetOf(Head(pending))]_vars


\* C21: for every image size and every workspace size within the bounds, the
\* scale createFabricImage gives an inserted image is greater than 0 and at
\* most 1, and the scaled width and height do not exceed the workspace width
\* and height less the 20 mm margin
C21_ImageScaledIntoWorkspace ==
    (lastOp = "createFabricImage" /\ activeObject # 0)
    => LET image == objects[activeObject]
       IN  /\ RLt(RInt(0), image.scaleX)
           /\ RLe(image.scaleX, RInt(1))
           /\ image.scaleY = image.scaleX
           /\ RLe(RMul(image.width, image.scaleX), mmToPixels(_width - 20))
           /\ RLe(RMul(image.height, image.scaleY), mmToPixels(_height - 20))


\* x is the multiple of the grid step, counted from the offset, nearest to
\* where the drag put the object
NearestGridLine(x, dragged, offset) ==
    LET gridSize == RMul(RInt(5), CurPpm)
    IN  /\ RDiv(RSub(x, offset), gridSize)[2] = 1
        /\ RLe(RMul(RInt(2), RSub(x, dragged)), gridSize)
        /\ RLe(RMul(RInt(2), RSub(dragged, x)), gridSize)

\* C22: while grid snapping is enabled, after every move the object's left
\* and top, measured from the usable-area offset, are the nearest multiples
\* of the 5 mm grid step; while it is disabled a move leaves left and top as
\* the drag set them
C22_MovesSnapToGrid ==
    [][\A target \in SnapTargets :
          MoveSelected(target[1], target[2]) =>
            LET moved == objects'[activeObject']
            IN  IF gridSnappingEnabled
                THEN /\ NearestGridLine(moved.left, RInt(target[1]), CurArea.offsetX)
                     /\ NearestGridLine(moved.top, RInt(target[2]), CurArea.offsetY)
                ELSE /\ moved.left = RInt(target[1])
                     /\ moved.top = RInt(target[2])]_vars

\* a rectangle dragged to (123, 77) with snapping enabled
C22_Witness ==
    /\ lastOp = "moveSelected"
    /\ gridSnappingEnabled
    /\ activeObject # 0
    /\ objects[activeObject].left # RInt(123)
    /\ NearestGridLine(objects[activeObject].left, RInt(123), CurArea.offsetX)
    /\ NearestGridLine(objects[activeObject].top, RInt(77), CurArea.offsetY)


\* the overlay objects of a canvas, back to front
OverlaysOf(objs) == SelectObjs(objs, OverlayIdx(objs))

\* the overlays that do not describe the selection: grid and rulers
FixedOverlaysOf(objs) == SelectObjs(objs, OverlayIdx(objs) \ IndicatorIdx(objs))

IndicatorsOf(objs) == SelectObjs(objs, IndicatorIdx(objs))

\* the indicators ind are those addSizeIndicators draws for obj at some zoom:
\* the width line spans the object's width below it, the height line spans
\* its height beside it
Describes(ind, obj) ==
    /\ Len(ind) = 8
    /\ ind[1].left = obj.left
    /\ ind[1].width = RMul(obj.width, obj.scaleX)
    /\ ind[3].top = obj.top
    /\ ind[3].height = RMul(obj.height, obj.scaleY)

\* C24: the canvas holds at most one set of dimension indicators (at most 8
\* indicator objects), and they describe the object displayed last, which is
\* the active object
C24_OneSetOfIndicatorsForDisplayedObject ==
    /\ Cardinality(IndicatorIdx(objects)) <= 8
    /\ IndicatorIdx(objects) # {}
         => /\ activeObject # 0
            /\ Describes(IndicatorsOf(objects), objects[activeObject])


\* the map getAllProjects and loadProject read from a storage
ProjectsIn(store) == ValidateAndCleanupProjects(Parsed(store.projects))

\* C25: after a confirmed duplicateProject(P) with new name M, M is in the
\* map getAllProjects and loadProject read, with P's object graph, and P's
\* entry is unchanged
C25_DuplicateIsStored ==
    [][\A P \in Names : \A M \in Names \ {P} :
          (DuplicateProject(P, M, TRUE) /\ lastOp' = "duplicateProject")
              => /\ M \in DOMAIN ProjectsIn(localStorage')
                 /\ ProjectsIn(localStorage')[M].objects = ProjectsIn(localStorage)[P].objects
                 /\ P \in DOMAIN ProjectsIn(localStorage')
                 /\ ProjectsIn(localStorage')[P] = ProjectsIn(localStorage)[P]]_vars


\* the elements of a sequence as a set
Range(seq) == {seq[k] : k \in 1..Len(seq)}

\* C26: once loadProject(N) has found N and every callback started by it or
\* by an earlier load has run, with no other operation since, the non-overlay
\* objects on the canvas are exactly the stored objects of N and the viewport
\* is N's stored viewport
C26_LoadedCanvasIsStoredProject ==
    (/\ loaded.found
     /\ loaded.clean
     /\ Running({"enliven", "restoreViewport"}) = 0) =>
        \E stored \in { GetAllProjects[loaded.name] } :
        \E now \in { UserObjects(objects) } :
           /\ Len(now) = Len(stored.objects)
           /\ Range(now) = {Enliven(d) : d \in Range(stored.objects)}
           /\ viewportTransform = stored.viewport


\* C27: a successful saveCurrentProject under name N changes only the entry
\* N of the stored project map: every other project in storage before the
\* save is in storage afterwards, with the same content
C27_SaveTouchesOnlyItsEntry ==
    [][(lastOp' = "saveCurrentProject" /\ saveStatus' = "success")
          => \A n \in DOMAIN Parsed(localStorage.projects) \ {nameInput.trimmed} :
                /\ n \in DOMAIN Parsed(localStorage'.projects)
                /\ Parsed(localStorage'.projects)[n] = Parsed(localStorage.projects)[n]]_vars


\* no animation frame, no deferred callback and no throttle window is open
Settled == pending = <<>> /\ ~zoomUpdateThrottle /\ ~measureThrottle

\* C28: whenever no zoom handler or animation frame is pending, the tracked
\* zoom AppGlobalState.currentZoom equals the zoom of the canvas
C28_TrackedZoomIsCanvasZoom ==
    Settled => _currentZoom = Zoom


\* C29: saveMachineProfileFromDialog replaces an existing profile only after
\* the overwrite question was asked and accepted
C29_OverwriteOnlyAfterConfirmation ==
    [][lastOp' = "saveMachineProfile"
          => \A k \in DOMAIN profiles :
                profiles'[k] # profiles[k] => confirmation' = "accepted"]_vars

\* C30: a callback registered with once is invoked at most once, also with
\* emits from inside a listener and after the callback threw, and an emit
\* leaves out no listener because another one threw
C30_OnceRunsAtMostOnce ==
    /\ \A id \in 1..Len(registered) : registered[id].once => calls[id] <= 1
    /\ ~skipped

====
